---- MODULE Spec2Model ----
(***************************************************************************)
(* A model of the ClawMail3 / MailDeck sync daemon:                        *)
(*   - the outbox state machine, the sender and the outbox watcher         *)
(*     (SpecOutbox, SpecTransition),                                       *)
(*   - the IMAP scheduler, the IMAP sync passes and the CLI sync command   *)
(*     (SpecImap),                                                         *)
(*   - the Gmail API scheduler (SpecGmail),                                *)
(*   - the dispatch of drafts across daemon crashes (SpecRecovery, with    *)
(*     fairness), the daemon's shutdown (SpecShutdown),                    *)
(*   - sync passes, the high-water mark and the stored message counts      *)
(*     (SpecPass, SpecMark, SpecCount),                                    *)
(*   - pure functions applied to bounded inputs: upsertJsonl (SpecJsonl),  *)
(*     validateDraft (SpecValidator), groupIntoThreads (SpecGroup),        *)
(*     normalizeSubject (SpecSubject), writeAttachments (SpecAttach).      *)
(* Every `await` of the TypeScript source is a point where other handlers, *)
(* other processes and the outside world may take steps, so each action    *)
(* below runs from one await to the next.                                  *)
(***************************************************************************)
EXTENDS Integers, Sequences, FiniteSets, TLC

VARIABLES
    \* ---- outbox subsystem ------------------------------------------------
    reviewBeforeSend,  \* config.review_before_send handed to OutboxWatcher
    outbox,            \* outbox/<file>: the draft stored there, or NoFile
    sent,              \* sent/<file>
    failed,            \* failed/<file>
    hnd,               \* the running invocations of handleFile / transitionDraft
    sendOk,            \* history: a provider send of <file> returned successfully
    sendErr,           \* history: a provider send of <file> raised an error
    detected,          \* history: onDraftDetected(<file>) was called
    rejected,          \* history: handleFile reported a parse or validation error for <file>
    faulted,           \* history: a file operation failed or the daemon died
    \* ---- IMAP scheduler, IMAP sync, CLI sync -----------------------------
    running,           \* ImapScheduler.running
    syncing,           \* ImapScheduler.syncing
    lastUid,           \* ImapScheduler.lastUid (Null or a number)
    timer,             \* ImapScheduler.timer is armed
    startPc,           \* position of ImapScheduler.start()
    inv,               \* the invocations of ImapScheduler.runSync
    accountJson,       \* account.json: last_uid stored there (Null or a number)
    syncState,         \* account.json: sync_state stored there
    mailbox,           \* UIDs present in [Gmail]/All Mail on the server
    recentFrom,        \* messages with uid >= recentFrom fall inside the date window
    cli,               \* the `maildeck sync` command process
    skipped,           \* history: a runSync call returned because a pass was in progress
    onErrorCalled,     \* history: runSync called onError
    \* ---- Gmail API scheduler ---------------------------------------------
    gRunning,          \* SyncScheduler.running
    gHistoryId,        \* SyncScheduler.historyId (0 models null)
    gTimer,            \* SyncScheduler.timer is armed
    gStartPc,          \* position of SyncScheduler.start()
    gTick,             \* the invocations of SyncScheduler.tick
    gServerHistory,    \* the mailbox's current historyId on the server
    \* ---- files of the corpus and their writers ---------------------------
    fsFile,            \* the contents found at each target path
    fsTmp,             \* the contents of each writer's .tmp sibling
    fsWriter,          \* the calls of atomicWriteFile / writeAttachments under way
    \* ---- the thread corpus of one account --------------------------------
    threadsJsonl,      \* index/threads.jsonl: the sequence of its entries
    threadDir,         \* threads/<id>/ exists
    msgFile,           \* threads/<id>/messages/ holds a message file
    threadJson,        \* threads/<id>/thread.json exists
    proc,              \* the calls of processThread / syncThread under way
    upserted,          \* history: the ids whose upsertJsonl call has returned
    \* ---- the daemon processes of one base directory ----------------------
    pidFile,           \* daemon.pid: Null (no file) or the PID it holds
    daemon,            \* the daemon processes (index.ts main), by PID
    starter,           \* the `maildeck start` command process
    stopper,           \* the `maildeck stop` command process
    \* ---- the full sync passes of one IMAP account -------------------------
    mail,              \* the messages of [Gmail]/All Mail, by UID
    now,               \* the clock (new Date()), in days
    pass,              \* the call of imapFullSync under way, or the last one
    files,             \* the message files under threads/<id>/messages/
    \* ---- the provider calls of sendDraft ---------------------------------
    dispatch,          \* the dispatches of a draft, each through its provider call
    \* ---- a JSONL file and the calls of upsertJsonl on it -------------------
    jsonlFile,         \* the items readJsonl returns for the file
    upsertHist,        \* history: the last call of upsertJsonl and the file before it
    \* ---- a value handed to validateDraft -----------------------------------
    draftData,         \* the parsed JSON value
    validation,        \* the ValidationResult of validateDraft(draftData), or NotValidated
    \* ---- one batch handed to groupIntoThreads ------------------------------
    headers,           \* the headers of the messages of the batch, by position
    threadIds,         \* the thread id groupIntoThreads gave to each, or << >> before the call
    \* ---- two subjects handed to the subject fallback of groupIntoThreads ---
    subjects,          \* the Subject header values of two messages, as token sequences
    subjectIds,        \* the thread ids derived from them, or << >> before the call
    \* ---- the attachments of one message on their way to disk ---------------
    attSizes,          \* att.size of the attachments of the message, in order
    attSync,           \* the call of processThread / syncThread that stores them
    \* ---- sync passes and the high-water mark of account.json ---------------
    sync,              \* the sync pass of each process: the daemon's scheduler, `maildeck sync`
    highWater,         \* last_uid of account.json, and the UIDs fetched by the pass that stored it
    \* ---- the message counts stored with a thread ---------------------------
    counts             \* per thread id: message_count of thread.json and msg_count of the index entry (0: none written)

outboxVars == <<reviewBeforeSend, outbox, sent, failed, hnd, sendOk, sendErr, detected, rejected, faulted>>
imapVars   == <<running, syncing, lastUid, timer, startPc, inv, accountJson, syncState,
                mailbox, recentFrom, cli, skipped, onErrorCalled>>
gmailVars  == <<gRunning, gHistoryId, gTimer, gStartPc, gTick, gServerHistory>>
fileVars   == <<fsFile, fsTmp, fsWriter>>
corpusVars == <<threadsJsonl, threadDir, msgFile, threadJson, proc, upserted>>
daemonVars == <<pidFile, daemon, starter, stopper>>
passVars   == <<mail, now, pass, files>>
sendVars   == <<dispatch>>
jsonlVars  == <<jsonlFile, upsertHist>>
validatorVars == <<draftData, validation>>
groupVars  == <<headers, threadIds>>
subjectVars == <<subjects, subjectIds>>
attachVars == <<attSizes, attSync>>
markVars   == <<sync, highWater>>
countVars  == <<counts>>
vars       == <<outboxVars, imapVars, gmailVars, fileVars, corpusVars, daemonVars,
                passVars, sendVars, jsonlVars, validatorVars, groupVars, subjectVars,
                attachVars, markVars, countVars>>

(***************************************************************************)
(* Bounds of the model.                                                    *)
(***************************************************************************)
MaxDrafts   == 1   \* draft filenames
MaxHandlers == 2   \* handleFile invocations that can be pending at once
MaxCallers  == 1   \* direct calls of transitionDraft that can be pending at once

Files    == 1..MaxDrafts
Handlers == 1..MaxHandlers
Callers  == 1..MaxCallers

(***************************************************************************)
(* Outbox: statuses and the transition table.                              *)
(***************************************************************************)
OUTBOX_STATUSES ==
    {"pending_review", "ready_to_send", "sending", "sent", "failed"}

\* What the "status" member of a draft JSON file can be: one of the five
\* statuses, absent ("missing"), a string that is no key at all ("unknown"),
\* or a string that names a member every JavaScript object inherits from
\* Object.prototype ("constructor").
DraftStatuses == OUTBOX_STATUSES \cup {"missing", "unknown", "constructor"}

\* OUTBOX_TRANSITIONS[status] as the JavaScript lookup evaluates it:
\* the array stored under an own key, undefined for a key the object does
\* not have, and the inherited member (a function, truthy, without
\* .includes) for a key found on Object.prototype.
OUTBOX_TRANSITIONS(status) ==
    CASE status = "pending_review" -> [kind |-> "array", to |-> {"ready_to_send"}]
      [] status = "ready_to_send"  -> [kind |-> "array", to |-> {"sending"}]
      [] status = "sending"        -> [kind |-> "array", to |-> {"sent", "failed"}]
      [] status = "constructor"    -> [kind |-> "inherited", to |-> {}]
      [] OTHER                     -> [kind |-> "undefined", to |-> {}]

\* A faulty variant of the validation: the table lookup is skipped for the moves
\* to a terminal directory.
ValidateTransitionTerminalUnchecked(status, newStatus) ==
    LET allowed == OUTBOX_TRANSITIONS(status) IN
    IF newStatus \in {"sent", "failed"} THEN "ok"
    ELSE IF allowed.kind = "undefined" THEN "InvalidTransitionError"
    ELSE IF allowed.kind = "inherited" THEN "TypeError"
    ELSE IF newStatus \notin allowed.to THEN "InvalidTransitionError"
    ELSE "ok"

\* transitionDraft, lines 31-34: "ok", or the error the statement throws.
\*   !allowed                      -> InvalidTransitionError
\*   allowed.includes is no function -> TypeError
\*   !allowed.includes(newStatus)  -> InvalidTransitionError
ValidateTransition(status, newStatus) ==
    LET allowed == OUTBOX_TRANSITIONS(status) IN
    IF allowed.kind = "undefined" THEN "InvalidTransitionError"
    ELSE IF allowed.kind = "inherited" THEN "TypeError"
    ELSE IF newStatus \notin allowed.to THEN "InvalidTransitionError"
    ELSE "ok"

\* What a file dropped into outbox/ can hold: a JSON object with one of the
\* statuses above, or bytes that JSON.parse rejects ("unparsable").
DroppedContents == DraftStatuses \cup {"unparsable"}

\* A faulty variant of the draft validation: every file passes.
ValidStatusAny(status) == TRUE

\* watcher.ts 58-61 and validateDraft, line 50: the file parses as JSON, and
\* a status that is present is one of the five. (The other members of the
\* draft are taken to be well-formed.)
ValidStatus(status) == status = "missing" \/ status \in OUTBOX_STATUSES

(***************************************************************************)
(* Outbox: files and handler records.                                      *)
(***************************************************************************)
NoFile == [status |-> "absent", stamp |-> "none", extra |-> "none"]
NewDraft(status) == [status |-> status, stamp |-> "none", extra |-> "none"]

\* The files transitionDraft writes to sent/ (lines 41-44) and failed/ (50-53).
SentFile   == [status |-> "sent", stamp |-> "sent_at", extra |-> "message_id"]
FailedFile == [status |-> "failed", stamp |-> "failed_at", extra |-> "error"]

Present(dir, f) == dir[f].status # "absent"

\* The status a draft has, wherever its file lies.
StatusOf(f) ==
    IF Present(outbox, f) THEN outbox[f].status
    ELSE IF Present(sent, f) THEN sent[f].status
    ELSE IF Present(failed, f) THEN failed[f].status
    ELSE "absent"

\* A handler slot: one invocation of OutboxWatcher.handleFile (or, in
\* SpecTransition, one direct call of transitionDraft).
\*   pc     where the invocation stands (the await it is suspended at)
\*   file   draftFilename
\*   ctx    the call site of the transitionDraft call in progress
\*   tnew   transitionDraft's newStatus
\*   tcur   the status the draft had when transitionDraft read it
\*   tdraft transitionDraft's local `draft`
\*   res    how the last direct call ended ("none" while none has ended)
IdleHandler ==
    [pc |-> "idle", file |-> 0, ctx |-> "none",
     tnew |-> "none", tcur |-> "none", tdraft |-> NoFile, res |-> "none"]

\* Handler slots are interchangeable: a new invocation takes the first free one.
FreeHandler(p) ==
    /\ hnd[p].pc = "idle"
    /\ \A q \in Handlers : q < p => hnd[q].pc # "idle"

\* Where control goes when transitionDraft throws error e.
\*   sender.ts 49-54: an error inside the try block (the provider send or the
\*     transition to "sent") is caught and answered by a transition to "failed";
\*   watcher.ts 90-92: every other error ends handleFile in onError.
AfterThrow(h, e) ==
    IF h.ctx = "to_sent"
    THEN [h EXCEPT !.pc = "td_read", !.ctx = "to_failed", !.tnew = "failed",
                   !.tcur = "none", !.tdraft = NoFile]
    ELSE IF h.ctx = "direct"
    THEN [h EXCEPT !.pc = "idle", !.res = e, !.tdraft = NoFile]
    ELSE IdleHandler

\* Where control goes when transitionDraft returns.
\*   watcher.ts 74-82: after autoPromote the second disjunct of the send
\*     condition holds, so sendDraft is called;
\*   sender.ts 31-33: after the transition to "sending" the provider send starts;
\*   sender.ts 38-55, watcher.ts 88: after a terminal transition sendDraft and
\*     handleFile return.
AfterReturn(h) ==
    CASE h.ctx = "promote"    -> [IdleHandler EXCEPT !.pc = "sd_read", !.file = h.file]
      [] h.ctx = "to_sending" -> [IdleHandler EXCEPT !.pc = "sd_inflight", !.file = h.file]
      [] h.ctx = "direct"     -> [h EXCEPT !.pc = "idle", !.res = "ok", !.tdraft = NoFile]
      [] OTHER                -> IdleHandler

\* A call of transitionDraft(email, f, newStatus, extra) from call site ctx.
CallTransition(p, f, newStatus, ctx) ==
    hnd' = [hnd EXCEPT ![p] = [IdleHandler EXCEPT !.pc = "td_read", !.file = f,
                                                   !.ctx = ctx, !.tnew = newStatus]]

(***************************************************************************)
(* transitionDraft (state-machine.ts).                                     *)
(***************************************************************************)
\* Lines 27-36: read the draft from outbox/, validate, build `updated`.
TransitionDraftRead(p) ==
    /\ hnd[p].pc = "td_read"
    /\ LET f == hnd[p].file
           h == [hnd[p] EXCEPT !.tcur = StatusOf(f)]
       IN  IF ~Present(outbox, f)
           THEN hnd' = [hnd EXCEPT ![p] = AfterThrow(h, "ENOENT")]
           ELSE LET v == ValidateTransition(outbox[f].status, h.tnew) IN
                IF v # "ok"
                THEN hnd' = [hnd EXCEPT ![p] = AfterThrow(h, v)]
                ELSE hnd' = [hnd EXCEPT ![p] = [h EXCEPT !.pc = "td_write",
                                                         !.tdraft = outbox[f]]]
    /\ UNCHANGED <<reviewBeforeSend, outbox, sent, failed, sendOk, sendErr, detected, rejected, faulted>>

\* Lines 41-44, 50-53, 58: atomicWriteJson of the updated draft. The write
\* becomes visible at its rename; a failed write leaves the target as it was.
TransitionDraftWrite(p) ==
    /\ hnd[p].pc = "td_write"
    /\ LET f == hnd[p].file
           h == hnd[p]
       IN  \/ /\ h.tnew = "sent"
              /\ sent' = [sent EXCEPT ![f] = SentFile]
              /\ hnd' = [hnd EXCEPT ![p].pc = "td_unlink"]
              /\ UNCHANGED <<outbox, failed, faulted>>
           \/ /\ h.tnew = "failed"
              /\ failed' = [failed EXCEPT ![f] = FailedFile]
              /\ hnd' = [hnd EXCEPT ![p].pc = "td_unlink"]
              /\ UNCHANGED <<outbox, sent, faulted>>
           \/ /\ h.tnew \notin {"sent", "failed"}
              /\ outbox' = [outbox EXCEPT ![f] = [h.tdraft EXCEPT !.status = h.tnew]]
              /\ hnd' = [hnd EXCEPT ![p] = AfterReturn(h)]
              /\ UNCHANGED <<sent, failed, faulted>>
           \/ \* the write fails (disk full, permissions): the error propagates
              /\ hnd' = [hnd EXCEPT ![p] = AfterThrow(h, "EIO")]
              /\ faulted' = TRUE
              /\ UNCHANGED <<outbox, sent, failed>>
    /\ UNCHANGED <<reviewBeforeSend, sendOk, sendErr, detected, rejected>>

\* Lines 45-46, 54-55: unlink of the file in outbox/.
TransitionDraftUnlink(p) ==
    /\ hnd[p].pc = "td_unlink"
    /\ LET f == hnd[p].file
           h == hnd[p]
       IN  \/ /\ Present(outbox, f)
              /\ outbox' = [outbox EXCEPT ![f] = NoFile]
              /\ hnd' = [hnd EXCEPT ![p] = AfterReturn(h)]
              /\ UNCHANGED faulted
           \/ /\ ~Present(outbox, f)
              /\ hnd' = [hnd EXCEPT ![p] = AfterThrow(h, "ENOENT")]
              /\ UNCHANGED <<outbox, faulted>>
           \/ \* unlink fails although the file is there (EPERM, EBUSY)
              /\ Present(outbox, f)
              /\ hnd' = [hnd EXCEPT ![p] = AfterThrow(h, "EIO")]
              /\ faulted' = TRUE
              /\ UNCHANGED outbox
    /\ UNCHANGED <<reviewBeforeSend, sent, failed, sendOk, sendErr, detected, rejected>>

(***************************************************************************)
(* OutboxWatcher (watcher.ts) and sendDraft (sender.ts).                   *)
(***************************************************************************)
\* watcher.ts 40-41: chokidar delivers an "add" or "change" event for a file
\* of outbox/ (the initial scan, an edit from outside, or the daemon's own
\* rewrite of the draft); handleFile starts and suspends at its readFile.
WatchEvent(p, f) ==
    /\ FreeHandler(p)
    /\ Present(outbox, f)
    /\ hnd' = [hnd EXCEPT ![p] = [IdleHandler EXCEPT !.pc = "hf_read", !.file = f]]
    /\ UNCHANGED <<reviewBeforeSend, outbox, sent, failed, sendOk, sendErr, detected, rejected, faulted>>

\* A faulty variant of the auto-promotion test: review_before_send is not consulted.
AutoPromoteAlways(status) == status = "pending_review"

\* watcher.ts 73 (and the second disjunct of 78-81).
AutoPromoteApplies(status) == ~reviewBeforeSend /\ status = "pending_review"

\* watcher.ts 57-89, up to the next await: read, parse, validate, then
\* auto-promote, or call sendDraft, or return. A file that is gone (readFile
\* throws), is no JSON (JSON.parse throws) or fails validateDraft ends the
\* invocation in onError (62-67, 90-92).
HandleFile(p) ==
    /\ hnd[p].pc = "hf_read"
    /\ LET f == hnd[p].file
           s == outbox[f].status
       IN  IF ~Present(outbox, f) \/ ~ValidStatus(s)
           THEN /\ hnd' = [hnd EXCEPT ![p] = IdleHandler]
                /\ rejected' = [rejected EXCEPT ![f] = TRUE]
                /\ UNCHANGED detected
           ELSE /\ detected' = [detected EXCEPT ![f] = TRUE]
                /\ UNCHANGED rejected
                /\ IF AutoPromoteApplies(s)
                   THEN CallTransition(p, f, "ready_to_send", "promote")
                   ELSE IF s = "ready_to_send"
                   THEN hnd' = [hnd EXCEPT ![p] = [IdleHandler EXCEPT !.pc = "sd_read",
                                                                      !.file = f]]
                   ELSE hnd' = [hnd EXCEPT ![p] = IdleHandler]
    /\ UNCHANGED <<reviewBeforeSend, outbox, sent, failed, sendOk, sendErr, faulted>>

\* sender.ts 22-31: read the draft again; return unless ready_to_send; else
\* transition to "sending".
SendDraftRead(p) ==
    /\ hnd[p].pc = "sd_read"
    /\ LET f == hnd[p].file IN
       IF Present(outbox, f) /\ outbox[f].status = "ready_to_send"
       THEN CallTransition(p, f, "sending", "to_sending")
       ELSE hnd' = [hnd EXCEPT ![p] = IdleHandler]
    /\ UNCHANGED <<reviewBeforeSend, outbox, sent, failed, sendOk, sendErr, detected, rejected, faulted>>

\* A faulty variant of the sender: an error of the provider send is swallowed, the
\* draft is not transitioned.
ProviderSendDropsError(p) ==
    /\ hnd[p].pc = "sd_inflight"
    /\ LET f == hnd[p].file IN
       \/ /\ sendOk' = [sendOk EXCEPT ![f] = TRUE]
          /\ CallTransition(p, f, "sent", "to_sent")
          /\ UNCHANGED sendErr
       \/ /\ sendErr' = [sendErr EXCEPT ![f] = TRUE]
          /\ hnd' = [hnd EXCEPT ![p] = IdleHandler]
          /\ UNCHANGED sendOk
    /\ UNCHANGED <<reviewBeforeSend, outbox, sent, failed, detected, rejected, faulted>>

\* sender.ts 33-54: the provider send (Gmail API sendMessage or sendViaSMTP)
\* that was started after the transition to "sending" completes: it returns,
\* and the draft is transitioned to "sent", or it raises, and the catch block
\* transitions the draft to "failed".
ProviderSendReturns(p) ==
    /\ hnd[p].pc = "sd_inflight"
    /\ LET f == hnd[p].file IN
       \/ /\ sendOk' = [sendOk EXCEPT ![f] = TRUE]
          /\ CallTransition(p, f, "sent", "to_sent")
          /\ UNCHANGED sendErr
       \/ /\ sendErr' = [sendErr EXCEPT ![f] = TRUE]
          /\ CallTransition(p, f, "failed", "to_failed")
          /\ UNCHANGED sendOk
    /\ UNCHANGED <<reviewBeforeSend, outbox, sent, failed, detected, rejected, faulted>>

\* The daemon process dies (kill, power loss): every pending invocation is
\* gone. The next daemon's watcher scans outbox/ again (WatchEvent).
Crash ==
    /\ \E p \in Handlers : hnd[p].pc # "idle"
    /\ hnd' = [p \in Handlers |-> IdleHandler]
    /\ faulted' = TRUE
    /\ UNCHANGED <<reviewBeforeSend, outbox, sent, failed, sendOk, sendErr, detected, rejected>>

(***************************************************************************)
(* The world outside the daemon: agents and the GUI.                       *)
(***************************************************************************)
\* An agent (or `maildeck compose`) drops a new draft file into outbox/.
ExternalCreate(f, status) ==
    /\ ~Present(outbox, f) /\ ~Present(sent, f) /\ ~Present(failed, f)
    /\ outbox' = [outbox EXCEPT ![f] = NewDraft(status)]
    /\ UNCHANGED <<reviewBeforeSend, sent, failed, hnd, sendOk, sendErr, detected, rejected, faulted>>

\* The GUI's approveDraft: pending_review -> ready_to_send, written in place.
ExternalApprove(f) ==
    /\ Present(outbox, f)
    /\ outbox[f].status = "pending_review"
    /\ outbox' = [outbox EXCEPT ![f].status = "ready_to_send"]
    /\ UNCHANGED <<reviewBeforeSend, sent, failed, hnd, sendOk, sendErr, detected, rejected, faulted>>

\* A caller outside the watcher (a test, a tool) calls transitionDraft.
DirectCall(p, f, newStatus) ==
    /\ FreeHandler(p)
    /\ CallTransition(p, f, newStatus, "direct")
    /\ UNCHANGED <<reviewBeforeSend, outbox, sent, failed, sendOk, sendErr, detected, rejected, faulted>>

(***************************************************************************)
(* Specifications of the outbox subsystem.                                 *)
(***************************************************************************)
\* The outbox of a freshly set-up account: three empty directories.
InitOutbox ==
    /\ reviewBeforeSend \in BOOLEAN
    /\ outbox = [f \in Files |-> NoFile]
    /\ sent = [f \in Files |-> NoFile]
    /\ failed = [f \in Files |-> NoFile]
    /\ hnd = [p \in Handlers |-> IdleHandler]
    /\ sendOk = [f \in Files |-> FALSE]
    /\ sendErr = [f \in Files |-> FALSE]
    /\ detected = [f \in Files |-> FALSE]
    /\ rejected = [f \in Files |-> FALSE]
    /\ faulted = FALSE

\* The inputs of transitionDraft: a draft lying in outbox/ with any status,
\* or a draft the state machine moved to sent/ or failed/ before.
InitTransition ==
    /\ reviewBeforeSend = TRUE
    /\ \E where \in [Files -> {"outbox", "sent", "failed"}],
          st \in [Files -> DraftStatuses] :
          /\ outbox = [f \in Files |-> IF where[f] = "outbox" THEN NewDraft(st[f])
                                        ELSE NoFile]
          /\ sent = [f \in Files |-> IF where[f] = "sent" THEN SentFile ELSE NoFile]
          /\ failed = [f \in Files |-> IF where[f] = "failed" THEN FailedFile
                                        ELSE NoFile]
          /\ \A f \in Files : where[f] # "outbox" => st[f] = "sent"
    /\ hnd = [p \in Handlers |-> IdleHandler]
    /\ sendOk = [f \in Files |-> FALSE]
    /\ sendErr = [f \in Files |-> FALSE]
    /\ detected = [f \in Files |-> FALSE]
    /\ rejected = [f \in Files |-> FALSE]
    /\ faulted = FALSE

(***************************************************************************)
(* IMAP: the mailbox on the server and the sync operations.                *)
(***************************************************************************)
MaxUid         == 2   \* UIDs the server hands out
MaxInvocations == 2   \* runSync invocations (and their onSync callbacks) pending at once

Invocations == 1..MaxInvocations

\* `lastUid: number | null = null`, `last_uid: null`
Null == -1

\* ImapClient.fetchRecent: the UIDs of the messages SINCE the date (the
\* last maxMessages of them, which keeps the highest UID).
FetchRecent == {u \in 1..mailbox : u >= recentFrom}

\* ImapClient.fetchSince(lastUid): range lastUid+1:* filtered by uid > lastUid.
FetchSince(last) == {u \in 1..mailbox : u > last}

MaxOf(S) == CHOOSE u \in S : \A v \in S : v <= u

\* imapFullSync's result.lastUid (imap-sync.ts 53-55).
ImapFullSyncLastUid ==
    IF FetchRecent # {} THEN MaxOf(FetchRecent) ELSE 0

\* imapIncrementalSync's result.lastUid: the highest UID fetched, and the
\* mark it was given when nothing was fetched.
ImapIncrementalSyncLastUid(last) ==
    IF FetchSince(last) # {} THEN MaxOf(FetchSince(last)) ELSE last

\* The sync operation runSync / cmdSync selects and its result.lastUid:
\* incremental if a mark > 0 was passed (arg), full otherwise (arg = 0).
SyncResultLastUid(arg) ==
    IF arg > 0 THEN ImapIncrementalSyncLastUid(arg) ELSE ImapFullSyncLastUid

\* A new message arrives on the server and gets the next UID.
Deliver ==
    /\ mailbox < MaxUid
    /\ mailbox' = mailbox + 1
    /\ UNCHANGED <<running, syncing, lastUid, timer, startPc, inv, accountJson, syncState,
                   recentFrom, cli, skipped, onErrorCalled>>

\* Time passes: the oldest message inside the date window falls out of it.
Age ==
    /\ recentFrom <= mailbox
    /\ recentFrom' = recentFrom + 1
    /\ UNCHANGED <<running, syncing, lastUid, timer, startPc, inv, accountJson, syncState,
                   mailbox, cli, skipped, onErrorCalled>>

(***************************************************************************)
(* ImapScheduler (imap-scheduler.ts, the version that keeps lastUid).      *)
(***************************************************************************)
\* A runSync invocation slot.
\*   pc      "idle", "sync" (awaiting the sync operation), "persist_read",
\*           "persist_write" (persistLastUid), "cb_read", "cb_write" (the
\*           daemon's onSync callback, which is not awaited)
\*   from    "start" or "tick": who awaits the invocation
\*   arg     the lastUid handed to the sync operation (0: full sync)
\*   val     the last_uid about to be written to account.json
IdleInvocation ==
    [pc |-> "idle", from |-> "none", arg |-> 0, val |-> Null]

\* Invocations are interchangeable: a new one takes the first free slot.
FreeInvocation(i) ==
    /\ inv[i].pc = "idle"
    /\ \A j \in Invocations : j < i => inv[j].pc # "idle"

\* A faulty variant of the guard: the guard of the scheduler version without the
\* syncing flag.
RunSyncSkipsNoFlag == ~running

\* A faulty variant of the guard: the running flag is not consulted.
RunSyncSkipsOnlyFlag == syncing

\* runSync line 207: `if (!this.running || this.syncing) return;`
RunSyncSkips == ~running \/ syncing

\* start() continues after `await this.runSync()`: it arms the timer.
StartContinues(from) ==
    IF from = "start"
    THEN timer' = TRUE /\ startPc' = "done"
    ELSE UNCHANGED <<timer, startPc>>

\* runSync from its entry to its first await (lines 207-233); cached is
\* this.lastUid at that moment.
RunSyncEnter(i, from, cached) ==
    IF RunSyncSkips
    THEN /\ inv' = [inv EXCEPT ![i] = IdleInvocation]
         /\ skipped' = (skipped \/ syncing)
         /\ StartContinues(from)
         /\ UNCHANGED syncing
    ELSE /\ syncing' = TRUE
         /\ UNCHANGED skipped
         /\ inv' = [inv EXCEPT ![i] = [IdleInvocation EXCEPT
                        !.pc = "sync", !.from = from,
                        !.arg = IF cached > 0 THEN cached ELSE 0]]
         /\ IF from = "start" THEN startPc' = "first" /\ UNCHANGED timer
            ELSE UNCHANGED <<timer, startPc>>

\* start(), lines 159-163: up to the await of loadLastUid.
ImapStart ==
    /\ ~running
    /\ startPc \in {"none", "done"}
    /\ running' = TRUE
    /\ startPc' = "load"
    /\ UNCHANGED <<syncing, lastUid, timer, inv, accountJson, syncState, mailbox, recentFrom, cli, skipped, onErrorCalled>>

\* loadLastUid (183-191) completes and start() calls runSync (166). When
\* account.json cannot be read (~readable) the catch sets lastUid to null.
LoadLastUid(i, readable) ==
    /\ startPc = "load"
    /\ FreeInvocation(i)
    /\ lastUid' = (IF readable THEN accountJson ELSE Null)
    /\ RunSyncEnter(i, "start", IF readable THEN accountJson ELSE Null)
    /\ UNCHANGED <<running, accountJson, syncState, mailbox, recentFrom, cli, onErrorCalled>>

\* The setInterval callback (169-171) calls runSync.
TimerTick(i) ==
    /\ timer
    /\ FreeInvocation(i)
    /\ RunSyncEnter(i, "tick", lastUid)
    /\ UNCHANGED <<running, lastUid, accountJson, syncState, mailbox, recentFrom, cli, onErrorCalled>>

\* stop(), lines 175-181.
ImapStop ==
    /\ running \/ timer
    /\ running' = FALSE
    /\ timer' = FALSE
    /\ UNCHANGED <<syncing, lastUid, startPc, inv, accountJson, syncState, mailbox, recentFrom, cli, skipped, onErrorCalled>>

\* The sync operation returns (219-235): this.lastUid = result.lastUid, then
\* persistLastUid runs up to its readFile.
RunSyncReturns(i) ==
    /\ inv[i].pc = "sync"
    /\ lastUid' = SyncResultLastUid(inv[i].arg)
    /\ inv' = [inv EXCEPT ![i].pc = "persist_read", ![i].arg = 0]
    /\ UNCHANGED <<running, syncing, timer, startPc, accountJson, syncState, mailbox, recentFrom, cli, skipped, onErrorCalled>>

\* A faulty variant of the catch path: the cached mark is advanced to the highest
\* UID on the server although the pass failed.
RunSyncThrowsAdvancing(i) ==
    /\ inv[i].pc = "sync"
    /\ syncing' = FALSE
    /\ lastUid' = mailbox
    /\ onErrorCalled' = TRUE
    /\ inv' = [inv EXCEPT ![i] = IdleInvocation]
    /\ StartContinues(inv[i].from)
    /\ UNCHANGED <<running, accountJson, syncState, mailbox, recentFrom, cli, skipped>>

\* A faulty variant of the catch path: runSync without its finally block, the
\* syncing flag stays set.
RunSyncThrowsKeepsFlag(i) ==
    /\ inv[i].pc = "sync"
    /\ onErrorCalled' = TRUE
    /\ inv' = [inv EXCEPT ![i] = IdleInvocation]
    /\ StartContinues(inv[i].from)
    /\ UNCHANGED <<running, syncing, lastUid, accountJson, syncState, mailbox, recentFrom, cli, skipped>>

\* The sync operation throws (connect, fetch, a write of processThread,
\* disconnect): catch calls onError, finally clears syncing (242-246).
RunSyncThrows(i) ==
    /\ inv[i].pc = "sync"
    /\ syncing' = FALSE
    /\ onErrorCalled' = TRUE
    /\ inv' = [inv EXCEPT ![i] = IdleInvocation]
    /\ StartContinues(inv[i].from)
    /\ UNCHANGED <<running, lastUid, accountJson, syncState, mailbox, recentFrom, cli, skipped>>

\* persistLastUid 195-199: account.json is read, meta.last_uid = this.lastUid.
PersistRead(i) ==
    /\ inv[i].pc = "persist_read"
    /\ inv' = [inv EXCEPT ![i].pc = "persist_write", ![i].val = lastUid]
    /\ UNCHANGED <<running, syncing, lastUid, timer, startPc, accountJson, syncState, mailbox,
                   recentFrom, cli, skipped, onErrorCalled>>

\* persistLastUid 200, then runSync 238-246: account.json is rewritten,
\* onSync is called without being awaited, finally clears syncing.
PersistWrite(i) ==
    /\ inv[i].pc = "persist_write"
    /\ accountJson' = inv[i].val
    /\ syncState' = "idle"
    /\ syncing' = FALSE
    /\ inv' = [inv EXCEPT ![i] = [IdleInvocation EXCEPT !.pc = "cb_read"]]
    /\ StartContinues(inv[i].from)
    /\ UNCHANGED <<running, lastUid, mailbox, recentFrom, cli, skipped, onErrorCalled>>

\* persistLastUid 201-203: the read or the write of account.json fails and
\* the error is swallowed; runSync goes on as after a write (238-246).
PersistFails(i) ==
    /\ inv[i].pc \in {"persist_read", "persist_write"}
    /\ syncing' = FALSE
    /\ inv' = [inv EXCEPT ![i] = [IdleInvocation EXCEPT !.pc = "cb_read"]]
    /\ StartContinues(inv[i].from)
    /\ UNCHANGED <<running, lastUid, accountJson, syncState, mailbox, recentFrom, cli, skipped,
                   onErrorCalled>>

\* The daemon's onSync callback, first half: loadAccountMeta reads account.json.
OnSyncRead(i) ==
    /\ inv[i].pc = "cb_read"
    /\ inv' = [inv EXCEPT ![i].pc = "cb_write", ![i].val = accountJson]
    /\ UNCHANGED <<running, syncing, lastUid, timer, startPc, accountJson, syncState, mailbox,
                   recentFrom, cli, skipped, onErrorCalled>>

\* The daemon's onSync callback, second half: the meta it read is written
\* back with last_sync and sync_state set.
OnSyncWrite(i) ==
    /\ inv[i].pc = "cb_write"
    /\ accountJson' = inv[i].val
    /\ syncState' = "idle"
    /\ inv' = [inv EXCEPT ![i] = IdleInvocation]
    /\ UNCHANGED <<running, syncing, lastUid, timer, startPc, mailbox, recentFrom, cli, skipped, onErrorCalled>>

(***************************************************************************)
(* cmdSync (cli/maildeck.ts), a process of its own.                        *)
(***************************************************************************)
\*   unread   the command was given --unread
IdleCli == [pc |-> "idle", arg |-> 0, val |-> Null, unread |-> FALSE]

\* imapUnreadSync's result.lastUid for the unread messages fetchUnread
\* returns: the highest UID fetched, 0 when nothing was fetched.
ImapUnreadSyncLastUid(unread) ==
    IF unread # {} THEN MaxOf(unread) ELSE 0

\* Lines 297-335: loadAccountMeta, then the choice between the incremental
\* and the full sync (--full forces the full sync).
CmdSyncStart(forceFullSync) ==
    /\ cli.pc = "idle"
    /\ cli' = [IdleCli EXCEPT !.pc = "sync",
                               !.arg = IF ~forceFullSync /\ accountJson > 0
                                       THEN accountJson ELSE 0]
    /\ UNCHANGED <<running, syncing, lastUid, timer, startPc, inv, accountJson, syncState,
                   mailbox, recentFrom, skipped, onErrorCalled>>

\* The sync operation returns; lines 338-341 up to the await of the write.
CmdSyncReturns ==
    /\ cli.pc = "sync"
    /\ cli' = [IdleCli EXCEPT !.pc = "write", !.val = SyncResultLastUid(cli.arg)]
    /\ UNCHANGED <<running, syncing, lastUid, timer, startPc, inv, accountJson, syncState,
                   mailbox, recentFrom, skipped, onErrorCalled>>

\* Lines 297-319 with --unread: loadAccountMeta, then imapUnreadSync is
\* called with the email alone.
CmdSyncUnreadStart ==
    /\ cli.pc = "idle"
    /\ cli' = [IdleCli EXCEPT !.pc = "unread", !.unread = TRUE]
    /\ UNCHANGED <<running, syncing, lastUid, timer, startPc, inv, accountJson, syncState,
                   mailbox, recentFrom, skipped, onErrorCalled>>

\* imapUnreadSync returns for the messages that are unread on the server;
\* lines 338-341 up to the await of the write.
CmdSyncUnreadReturns(unread) ==
    /\ cli.pc = "unread"
    /\ unread \subseteq 1..mailbox
    /\ cli' = [cli EXCEPT !.pc = "write", !.val = ImapUnreadSyncLastUid(unread)]
    /\ UNCHANGED <<running, syncing, lastUid, timer, startPc, inv, accountJson, syncState,
                   mailbox, recentFrom, skipped, onErrorCalled>>

\* The sync operation throws: the command ends without writing account.json.
CmdSyncThrows ==
    /\ cli.pc \in {"sync", "unread"}
    /\ cli' = IdleCli
    /\ UNCHANGED <<running, syncing, lastUid, timer, startPc, inv, accountJson, syncState,
                   mailbox, recentFrom, skipped, onErrorCalled>>

\* Line 341: atomicWriteJson(accountMetaPath(email), meta).
CmdSyncWrite ==
    /\ cli.pc = "write"
    /\ accountJson' = cli.val
    /\ syncState' = "idle"
    /\ cli' = IdleCli
    /\ UNCHANGED <<running, syncing, lastUid, timer, startPc, inv, mailbox, recentFrom, skipped, onErrorCalled>>

(***************************************************************************)
(* SyncScheduler (sync-scheduler.ts), the Gmail API path.                  *)
(***************************************************************************)
MaxHistory == 2   \* historyIds the server hands out
MaxTicks   == 2   \* tick / start invocations pending at once

Ticks == 1..MaxTicks

\* An invocation of tick() or of start()'s runFullSync.
\*   pc   "idle", "full" (awaiting fullSync), "incr" (awaiting incrementalSync)
\*   from "start" or "tick"
\*   val  the historyId the sync read from the profile and will return
IdleTick == [pc |-> "idle", from |-> "none", val |-> 0]

\* Invocations are interchangeable: a new one takes the first free slot.
FreeTick(t) ==
    /\ gTick[t].pc = "idle"
    /\ \A u \in Ticks : u < t => gTick[u].pc # "idle"

\* The syncs of the account that are in flight.
GmailInFlight == {t \in Ticks : gTick[t].pc \in {"full", "incr"}}

\* The mailbox changes on the server: its historyId grows.
GmailChange ==
    /\ gServerHistory < MaxHistory
    /\ gServerHistory' = gServerHistory + 1
    /\ UNCHANGED <<gRunning, gHistoryId, gTimer, gStartPc, gTick>>

\* start(), lines 30-35: up to the await of the initial runFullSync.
GmailStart(t) ==
    /\ ~gRunning
    /\ gStartPc \in {"none", "done", "failed"}
    /\ FreeTick(t)
    /\ gRunning' = TRUE
    /\ gStartPc' = "first"
    /\ gTick' = [gTick EXCEPT ![t] = [pc |-> "full", from |-> "start",
                                      val |-> gServerHistory]]
    /\ UNCHANGED <<gHistoryId, gTimer, gServerHistory>>

\* stop(), lines 44-50.
GmailStop ==
    /\ gRunning \/ gTimer
    /\ gRunning' = FALSE
    /\ gTimer' = FALSE
    /\ UNCHANGED <<gHistoryId, gStartPc, gTick, gServerHistory>>

\* The setInterval callback (38-40) calls tick(); tick runs to its first
\* await (53-67).
GmailTick(t) ==
    /\ gTimer
    /\ FreeTick(t)
    /\ IF ~gRunning
       THEN UNCHANGED gTick
       ELSE IF gHistoryId = 0
       THEN gTick' = [gTick EXCEPT ![t] = [pc |-> "full", from |-> "tick",
                                           val |-> gServerHistory]]
       ELSE gTick' = [gTick EXCEPT ![t] = [pc |-> "incr", from |-> "tick",
                                           val |-> gServerHistory]]
    /\ UNCHANGED <<gRunning, gHistoryId, gTimer, gStartPc, gServerHistory>>

\* fullSync returns (runFullSync 84-90); start() then arms the timer (38).
FullSyncReturns(t) ==
    /\ gTick[t].pc = "full"
    /\ gHistoryId' = gTick[t].val
    /\ gTick' = [gTick EXCEPT ![t] = IdleTick]
    /\ IF gTick[t].from = "start"
       THEN gTimer' = TRUE /\ gStartPc' = "done"
       ELSE UNCHANGED <<gTimer, gStartPc>>
    /\ UNCHANGED <<gRunning, gServerHistory>>

\* fullSync throws: start() rejects before arming the timer, a tick rejects
\* into onError.
FullSyncThrows(t) ==
    /\ gTick[t].pc = "full"
    /\ gTick' = [gTick EXCEPT ![t] = IdleTick]
    /\ IF gTick[t].from = "start"
       THEN gStartPc' = "failed"
       ELSE UNCHANGED gStartPc
    /\ UNCHANGED <<gRunning, gHistoryId, gTimer, gServerHistory>>

\* incrementalSync returns (68-72).
IncrementalSyncReturns(t) ==
    /\ gTick[t].pc = "incr"
    /\ gHistoryId' = gTick[t].val
    /\ gTick' = [gTick EXCEPT ![t] = IdleTick]
    /\ UNCHANGED <<gRunning, gTimer, gStartPc, gServerHistory>>

\* incrementalSync throws HistoryExpiredError: tick falls back to
\* runFullSync (74-76).
IncrementalSyncExpired(t) ==
    /\ gTick[t].pc = "incr"
    /\ gTick' = [gTick EXCEPT ![t] = [pc |-> "full", from |-> "tick",
                                      val |-> gServerHistory]]
    /\ UNCHANGED <<gRunning, gHistoryId, gTimer, gStartPc, gServerHistory>>

\* incrementalSync throws another error: tick rethrows it (77-79).
IncrementalSyncThrows(t) ==
    /\ gTick[t].pc = "incr"
    /\ gTick' = [gTick EXCEPT ![t] = IdleTick]
    /\ UNCHANGED <<gRunning, gHistoryId, gTimer, gStartPc, gServerHistory>>

(***************************************************************************)
(* Files of the corpus: atomicWriteFile (atomic-write.ts) and              *)
(* writeAttachments (attachment-writer.ts).                                *)
(***************************************************************************)
MaxWriters  == 1   \* write calls under way at once
MaxChunks   == 2   \* write(2) calls a writeFile needs to put a file's data down
MaxVersions == 2   \* successive contents written to a path

Writers == 1..MaxWriters

\* Paths written through atomicWriteFile (message .md, thread.json, the JSONL
\* indexes, account.json, drafts) and paths writeAttachments writes.
AtomicPaths     == {"thread.json"}
AttachmentPaths == {"attachment"}
FsPaths         == AtomicPaths \cup AttachmentPaths

\* The contents of a file: the first len chunks of version ver; ver 0 is a
\* path that does not exist.
NoContents == [ver |-> 0, len |-> 0]
Truncated(v) == [ver |-> v, len |-> 0]

\* A file is whole when it is absent or holds all chunks of one version.
Whole(c) == c.ver = 0 \/ c.len = MaxChunks

IdleWriter == [pc |-> "idle", path |-> "none", ver |-> 0]

FreeWriter(w) ==
    /\ fsWriter[w].pc = "idle"
    /\ \A x \in Writers : x < w => fsWriter[x].pc # "idle"

\* atomicWriteFile lines 122-126: mkdir, the .tmp name is drawn, writeFile
\* opens (creates, truncates) the .tmp sibling.
AtomicWriteStart(w, path, v) ==
    /\ FreeWriter(w)
    /\ path \in AtomicPaths
    /\ fsTmp' = [fsTmp EXCEPT ![w] = Truncated(v)]
    /\ fsWriter' = [fsWriter EXCEPT ![w] = [pc |-> "tmp_write", path |-> path, ver |-> v]]
    /\ UNCHANGED fsFile

\* writeFile(tmpName, data) puts down one more chunk (line 126).
AtomicWriteChunk(w) ==
    /\ fsWriter[w].pc = "tmp_write"
    /\ fsTmp[w].len < MaxChunks
    /\ fsTmp' = [fsTmp EXCEPT ![w].len = @ + 1]
    /\ fsWriter' = [fsWriter EXCEPT ![w].pc =
                       IF fsTmp[w].len + 1 = MaxChunks THEN "rename" ELSE "tmp_write"]
    /\ UNCHANGED fsFile

\* rename(tmpName, filePath), line 127: the target is replaced in one step.
AtomicRename(w) ==
    /\ fsWriter[w].pc = "rename"
    /\ fsFile' = [fsFile EXCEPT ![fsWriter[w].path] = fsTmp[w]]
    /\ fsTmp' = [fsTmp EXCEPT ![w] = NoContents]
    /\ fsWriter' = [fsWriter EXCEPT ![w] = IdleWriter]

\* writeAttachments line 40: writeFile(filePath, att.content) opens
\* (creates, truncates) the target itself.
AttachmentWriteStart(w, path, v) ==
    /\ FreeWriter(w)
    /\ path \in AttachmentPaths
    /\ fsFile' = [fsFile EXCEPT ![path] = Truncated(v)]
    /\ fsWriter' = [fsWriter EXCEPT ![w] = [pc |-> "att_write", path |-> path, ver |-> v]]
    /\ UNCHANGED fsTmp

\* writeFile(filePath, att.content) puts down one more chunk.
AttachmentWriteChunk(w) ==
    /\ fsWriter[w].pc = "att_write"
    /\ fsFile[fsWriter[w].path].len < MaxChunks
    /\ fsFile' = [fsFile EXCEPT ![fsWriter[w].path].len = @ + 1]
    /\ fsWriter' = [fsWriter EXCEPT ![w] =
                       IF fsFile[fsWriter[w].path].len + 1 = MaxChunks
                       THEN IdleWriter ELSE @]
    /\ UNCHANGED fsTmp

\* A write or the rename fails (ENOSPC, EIO): the promise rejects, the call
\* is over; what was written stays where it is.
WriteFails(w) ==
    /\ fsWriter[w].pc # "idle"
    /\ fsWriter' = [fsWriter EXCEPT ![w] = IdleWriter]
    /\ UNCHANGED <<fsFile, fsTmp>>

\* The process dies: every call under way is gone.
WriterProcessDies ==
    /\ \E w \in Writers : fsWriter[w].pc # "idle"
    /\ fsWriter' = [w \in Writers |-> IdleWriter]
    /\ UNCHANGED <<fsFile, fsTmp>>

\* An account whose corpus files have not been written yet.
InitFiles ==
    /\ fsFile = [path \in FsPaths |-> NoContents]
    /\ fsTmp = [w \in Writers |-> NoContents]
    /\ fsWriter = [w \in Writers |-> IdleWriter]

(***************************************************************************)
(* The thread corpus: processThread (imap-sync.ts), syncThread             *)
(* (full-sync.ts), upsertJsonl (unnamed/part_013) and upsertThreadIndex   *)
(* (cleaning/index.ts).                                                    *)
(***************************************************************************)
MaxThreads == 2   \* thread ids
MaxDate    == 2   \* distinct last_date instants
MaxProcs   == 2   \* processThread calls under way at once (daemon pass, CLI pass)

Threads == 1..MaxThreads
Dates   == 1..MaxDate
Procs   == 1..MaxProcs

\* An entry of threads.jsonl: the key and the member the index is sorted by.
IndexEntry(t, d) == [id |-> t, last_date |-> d]

\* items.findIndex(existing => existing[keyField] === keyValue), or 0.
FindIndex(items, key) ==
    IF \E k \in 1..Len(items) : items[k].id = key
    THEN CHOOSE k \in 1..Len(items) :
            /\ items[k].id = key
            /\ \A j \in 1..(k - 1) : items[j].id # key
    ELSE 0

\* Always push: upsertJsonl without its findIndex.
UpsertAlwaysPushes(items, item) == Append(items, item)

\* upsertJsonl lines 46-53: replace the item with the same key, else append.
Upsert(items, item) ==
    LET idx == FindIndex(items, item.id) IN
    IF idx > 0 THEN [items EXCEPT ![idx] = item] ELSE Append(items, item)

\* One step of a stable sort: item goes behind every item that does not
\* compare after it under (a, b) => time(b.last_date) - time(a.last_date).
RECURSIVE InsertByLastDate(_, _)
InsertByLastDate(sorted, item) ==
    IF sorted = << >> THEN <<item>>
    ELSE IF Head(sorted).last_date >= item.last_date
    THEN <<Head(sorted)>> \o InsertByLastDate(Tail(sorted), item)
    ELSE <<item>> \o sorted

\* items.sort(...) of upsertThreadIndex (lines 267-269): newest first, stable.
RECURSIVE SortByLastDate(_)
SortByLastDate(items) ==
    IF items = << >> THEN << >>
    ELSE InsertByLastDate(SortByLastDate(SubSeq(items, 1, Len(items) - 1)),
                          items[Len(items)])

\* A call of processThread / syncThread.
\*   pc     "write_msg"  writeMessage: initThreadDirs is done, the message
\*                       file is being written
\*          "write_meta" writeThreadMeta
\*          "ups_read"   upsertJsonl: readJsonl
\*          "ups_write"  upsertJsonl: writeJsonl of the upserted items
\*          "sort_write" upsertThreadIndex: writeJsonl of the sorted items
\*   thread, date   the thread id and the last_date of its index entry
\*   items  the array upsertJsonl read and works on
IdleProc == [pc |-> "idle", thread |-> 0, date |-> 0, items |-> << >>]

FreeProc(p) ==
    /\ proc[p].pc = "idle"
    /\ \A q \in Procs : q < p => proc[q].pc # "idle"

\* processThread up to the write of the first message file (140-145):
\* writeMessage calls initThreadDirs, which creates threads/<id>/ and
\* messages/.
ProcessThreadStart(p, t, d) ==
    /\ FreeProc(p)
    /\ threadDir' = [threadDir EXCEPT ![t] = TRUE]
    /\ proc' = [proc EXCEPT ![p] = [IdleProc EXCEPT !.pc = "write_msg",
                                                    !.thread = t, !.date = d]]
    /\ UNCHANGED <<threadsJsonl, msgFile, threadJson, upserted>>

\* writeMessage's atomicWriteFile completes for the messages of the thread
\* (145); the loop ends and writeThreadMeta is called (196).
WriteMessage(p) ==
    /\ proc[p].pc = "write_msg"
    /\ msgFile' = [msgFile EXCEPT ![proc[p].thread] = TRUE]
    /\ proc' = [proc EXCEPT ![p].pc = "write_meta"]
    /\ UNCHANGED <<threadsJsonl, threadDir, threadJson, upserted>>

\* writeThreadMeta's atomicWriteJson completes (196); upsertThreadIndex is
\* called and upsertJsonl starts its read (216).
WriteThreadMeta(p) ==
    /\ proc[p].pc = "write_meta"
    /\ threadJson' = [threadJson EXCEPT ![proc[p].thread] = TRUE]
    /\ proc' = [proc EXCEPT ![p].pc = "ups_read"]
    /\ UNCHANGED <<threadsJsonl, threadDir, msgFile, upserted>>

\* upsertJsonl lines 45-55: readJsonl returns, the item is put into the
\* array, writeJsonl is called.
UpsertRead(p) ==
    /\ proc[p].pc = "ups_read"
    /\ proc' = [proc EXCEPT ![p].pc = "ups_write",
                            ![p].items = Upsert(threadsJsonl,
                                                IndexEntry(proc[p].thread, proc[p].date))]
    /\ UNCHANGED <<threadsJsonl, threadDir, msgFile, threadJson, upserted>>

\* upsertJsonl's writeJsonl completes (55-56); upsertThreadIndex sorts the
\* array it got back and calls writeJsonl again (267-271).
UpsertWrite(p) ==
    /\ proc[p].pc = "ups_write"
    /\ threadsJsonl' = proc[p].items
    /\ upserted' = upserted \cup {proc[p].thread}
    /\ proc' = [proc EXCEPT ![p].pc = "sort_write",
                            ![p].items = SortByLastDate(proc[p].items)]
    /\ UNCHANGED <<threadDir, msgFile, threadJson>>

\* upsertThreadIndex's writeJsonl completes (271); processThread returns
\* (the contact index is another file).
SortWrite(p) ==
    /\ proc[p].pc = "sort_write"
    /\ threadsJsonl' = proc[p].items
    /\ proc' = [proc EXCEPT ![p] = IdleProc]
    /\ UNCHANGED <<threadDir, msgFile, threadJson, upserted>>

\* A step of processThread throws (a write fails, the connection drops) or
\* its process dies: the call is over, the pass ends with that error.
ProcessThreadFails(p) ==
    /\ proc[p].pc # "idle"
    /\ proc' = [proc EXCEPT ![p] = IdleProc]
    /\ UNCHANGED <<threadsJsonl, threadDir, msgFile, threadJson, upserted>>

\* An account after setup: no thread, no index file.
InitCorpus ==
    /\ threadsJsonl = << >>
    /\ threadDir = [t \in Threads |-> FALSE]
    /\ msgFile = [t \in Threads |-> FALSE]
    /\ threadJson = [t \in Threads |-> FALSE]
    /\ proc = [p \in Procs |-> IdleProc]
    /\ upserted = {}

(***************************************************************************)
(* The daemon (index.ts main) and the commands `maildeck start` and        *)
(* `maildeck stop` (cli/maildeck.ts).                                      *)
(***************************************************************************)
MaxDaemons  == 2   \* daemon processes that are ever spawned
MaxAccounts == 2   \* accounts of config.json, one scheduler each

Pids == 1..MaxDaemons

\* A daemon process.
\*   pc   "none"     not spawned yet
\*        "setup"    main up to the start loops (95-228)
\*        "starting" in the start loops (230-238): each scheduler.start() is
\*                   awaited and runs the initial sync pass of its account
\*        "running"  the signal handlers are installed (261-262)
\*        "shutdown" the handler `shutdown` runs (253-259)
\*        "exited"   process.exit(0) at the end of `shutdown`
\*        "killed"   ended by the default action of a signal
\*        "fatal"    process.exit(1) in main().catch (265-268)
\*   signalled   SIGINT or SIGTERM was delivered to the process
\*   stopped     stop() was called on every scheduler and watcher
\*   sched       the number of schedulers whose start() has returned
\*   syncError   the first sync pass of an account has failed
NoDaemon ==
    [pc |-> "none", signalled |-> FALSE, stopped |-> FALSE,
     sched |-> 0, syncError |-> FALSE]

\* isProcessRunning (maildeck.ts 137-144): process.kill(pid, 0) succeeds.
IsProcessRunning(p) == daemon[p].pc \in {"setup", "starting", "running", "shutdown"}

\* What the delivery of SIGINT or SIGTERM does to a daemon process: without
\* a handler for the signal the process is ended at once; with the handlers
\* of lines 261-262 `shutdown` is called.
Signalled(d) ==
    IF d.pc \in {"setup", "starting"}
    THEN [d EXCEPT !.pc = "killed", !.signalled = TRUE]
    ELSE IF d.pc = "running"
    THEN [d EXCEPT !.pc = "shutdown", !.signalled = TRUE]
    ELSE d

IdleCommand == [pc |-> "idle", pid |-> Null, res |-> "none"]

\* cmdStart, line 207: readPid (null when daemon.pid cannot be read).
CmdStartRead ==
    /\ starter.pc = "idle"
    /\ starter' = [IdleCommand EXCEPT !.pc = "read", !.pid = pidFile]
    /\ UNCHANGED <<pidFile, daemon, stopper>>

\* cmdStart, lines 208-225: refuse when the PID read names a live process;
\* otherwise spawn the daemon as a detached child and wait 1.5 s.
CmdStartSpawn(child) ==
    /\ starter.pc = "read"
    /\ IF starter.pid # Null /\ IsProcessRunning(starter.pid)
       THEN /\ child = 1     \* nothing is spawned
            /\ starter' = [IdleCommand EXCEPT !.res = "already_running"]
            /\ UNCHANGED daemon
       ELSE /\ daemon[child].pc = "none"
            /\ daemon' = [daemon EXCEPT ![child].pc = "setup"]
            /\ starter' = [starter EXCEPT !.pc = "wait"]
    /\ UNCHANGED <<pidFile, stopper>>

\* cmdStart, lines 227-228: readPid again, print { started: true }.
CmdStartDone ==
    /\ starter.pc = "wait"
    /\ starter' = [IdleCommand EXCEPT !.res = "started"]
    /\ UNCHANGED <<pidFile, daemon, stopper>>

\* main, lines 95-228: logger, config, one scheduler and one watcher per
\* account. No statement of main writes daemon.pid.
DaemonSetup(p) ==
    /\ daemon[p].pc = "setup"
    /\ daemon' = [daemon EXCEPT ![p].pc = "starting"]
    /\ UNCHANGED <<pidFile, starter, stopper>>

\* main, lines 230-235: the awaited start() of the next scheduler returns.
\* Its first sync pass has succeeded, or it has failed (failedPass) inside
\* ImapScheduler.runSync, whose catch hands the error to onError.
SchedulerStartReturns(p, failedPass) ==
    /\ daemon[p].pc = "starting"
    /\ daemon[p].sched < MaxAccounts
    /\ daemon' = [daemon EXCEPT ![p].sched = @ + 1,
                                ![p].syncError = @ \/ failedPass]
    /\ UNCHANGED <<pidFile, starter, stopper>>

\* main, lines 233-235 and 265-268: the next scheduler is a SyncScheduler
\* and the fullSync of its start() throws (sync-scheduler.ts 30-35 has no
\* try): start() rejects, main rejects, main().catch logs and calls
\* process.exit(1).
SchedulerStartRejects(p) ==
    /\ daemon[p].pc = "starting"
    /\ daemon[p].sched < MaxAccounts
    /\ daemon' = [daemon EXCEPT ![p].pc = "fatal", ![p].syncError = TRUE]
    /\ UNCHANGED <<pidFile, starter, stopper>>

\* main, lines 236-262: every scheduler has been started (the initial sync
\* passes are over); the watchers are started and the handlers for SIGINT
\* and SIGTERM are installed.
DaemonStarted(p) ==
    /\ daemon[p].pc = "starting"
    /\ daemon[p].sched = MaxAccounts
    /\ daemon' = [daemon EXCEPT ![p].pc = "running"]
    /\ UNCHANGED <<pidFile, starter, stopper>>

\* SIGINT (Ctrl-C) or SIGTERM (kill) is delivered to a daemon process.
Signal(p) ==
    /\ daemon[p].pc \in {"setup", "starting", "running"}
    /\ daemon' = [daemon EXCEPT ![p] = Signalled(daemon[p])]
    /\ UNCHANGED <<pidFile, starter, stopper>>

\* shutdown, lines 253-259: stop() on every scheduler and watcher, then
\* process.exit(0). daemon.pid is not touched.
Shutdown(p) ==
    /\ daemon[p].pc = "shutdown"
    /\ daemon' = [daemon EXCEPT ![p].pc = "exited", ![p].stopped = TRUE]
    /\ UNCHANGED <<pidFile, starter, stopper>>

\* cmdStop, line 233: readPid.
CmdStopRead ==
    /\ stopper.pc = "idle"
    /\ stopper' = [IdleCommand EXCEPT !.pc = "read", !.pid = pidFile]
    /\ UNCHANGED <<pidFile, daemon, starter>>

\* cmdStop, lines 234-255: fail without a PID; remove a stale PID file and
\* fail; else send SIGTERM (the POSIX branch) and start to wait.
CmdStopKill ==
    /\ stopper.pc = "read"
    /\ IF stopper.pid = Null
       THEN /\ stopper' = [IdleCommand EXCEPT !.res = "no_pid_file"]
            /\ UNCHANGED <<pidFile, daemon>>
       ELSE IF ~IsProcessRunning(stopper.pid)
       THEN /\ pidFile' = Null
            /\ stopper' = [IdleCommand EXCEPT !.res = "stale"]
            /\ UNCHANGED daemon
       ELSE /\ daemon' = [daemon EXCEPT ![stopper.pid] = Signalled(daemon[stopper.pid])]
            /\ stopper' = [stopper EXCEPT !.pc = "wait"]
            /\ UNCHANGED pidFile
    /\ UNCHANGED starter

\* cmdStop, lines 257-267: wait up to 5 s for the process to exit, then
\* unlink daemon.pid and print { stopped: true }.
CmdStopCleanup ==
    /\ stopper.pc = "wait"
    /\ pidFile' = Null
    /\ stopper' = [IdleCommand EXCEPT !.res = "stopped"]
    /\ UNCHANGED <<daemon, starter>>

\* No daemon process yet. daemon.pid lies in the user's base directory and no
\* statement of the repository writes it: what it holds comes from outside.
InitDaemon ==
    /\ pidFile \in {Null} \cup Pids
    /\ daemon = [p \in Pids |-> NoDaemon]
    /\ starter = IdleCommand
    /\ stopper = IdleCommand

(***************************************************************************)
(* Full sync passes: imapFullSync over the messages the server returns.   *)
(***************************************************************************)
MaxMail   == 2   \* messages of the mailbox; the message with UID u arrived on day u
MaxNow    == 4   \* the last day of the clock
DepthDays == 2   \* sync_depth_days of the account

MailUids == 1..MaxMail
Subjects == 1..2

\* What a message's raw source gives the sync:
\*   hasDate   it has a Date header that parses (the day it arrived)
\*   subject   hashString(normalizeSubject(Subject))
\*   replyTo   the UID of the message its In-Reply-To names, or 0
\*   references  the UIDs of the messages its References names, in order
Messages(u) ==
    [hasDate : BOOLEAN, subject : Subjects, replyTo : {0} \cup 1..(u - 1),
     references : {<< >>} \cup {<<r>> : r \in 1..(u - 1)}]

\* The members of a set of integers, smallest first.
RECURSIVE Ascending(_)
Ascending(S) ==
    IF S = {} THEN << >>
    ELSE LET x == CHOOSE y \in S : \A z \in S : y <= z
         IN  <<x>> \o Ascending(S \ {x})

\* fetchRecent (ImapClient, 390-424): the UIDs the search { since } returns,
\* since = now - days, in the order the server lists them.
FetchRecentUids == Ascending({u \in MailUids : u >= now - DepthDays})

\* msgIdToThread.has(id) when the k-th message of the batch is looked at:
\* the positions before k of the message with that Message-ID.
SeenBefore(batch, k, id) == {j \in 1..(k - 1) : batch[j] = id}

\* A faulty variant of the lookup: the last reference that was seen wins,
\* and it is looked at before In-Reply-To.
RECURSIVE ThreadIdOfLastReference(_, _, _)
ThreadIdOfLastReference(msgs, batch, k) ==
    LET m    == msgs[batch[k]]
        hits == {r \in 1..Len(m.references) :
                    SeenBefore(batch, k, m.references[r]) # {}}
    IN  IF hits # {}
        THEN LET r == CHOOSE x \in hits : \A y \in hits : y <= x
             IN  ThreadIdOfLastReference(msgs, batch,
                     CHOOSE j \in SeenBefore(batch, k, m.references[r]) : TRUE)
        ELSE IF m.replyTo # 0 /\ SeenBefore(batch, k, m.replyTo) # {}
        THEN ThreadIdOfLastReference(msgs, batch,
                 CHOOSE j \in SeenBefore(batch, k, m.replyTo) : TRUE)
        ELSE m.subject

\* groupIntoThreads, lines 77-109: the thread id given to the k-th message
\* of the batch, msgs being the headers of the messages by Message-ID.
\* The thread of the message In-Reply-To names when that message came
\* earlier in this batch (msgIdToThread); else the thread of the first of
\* its References that came earlier; else the hash of the subject.
RECURSIVE ThreadIdOf(_, _, _)
ThreadIdOf(msgs, batch, k) ==
    LET m    == msgs[batch[k]]
        hits == {r \in 1..Len(m.references) :
                    SeenBefore(batch, k, m.references[r]) # {}}
    IN  IF m.replyTo # 0 /\ SeenBefore(batch, k, m.replyTo) # {}
        THEN ThreadIdOf(msgs, batch,
                 CHOOSE j \in SeenBefore(batch, k, m.replyTo) : TRUE)
        ELSE IF hits # {}
        THEN LET r == CHOOSE x \in hits : \A y \in hits : x <= y
             IN  ThreadIdOf(msgs, batch,
                     CHOOSE j \in SeenBefore(batch, k, m.references[r]) : TRUE)
        ELSE m.subject

\* groupIntoThreads (70-119): the Map of thread id to messages, as the
\* sequence of its entries in insertion order.
GroupIntoThreads(batch) ==
    LET ids    == [k \in 1..Len(batch) |-> ThreadIdOf(mail, batch, k)]
        firsts == Ascending({k \in 1..Len(batch) :
                                \A j \in 1..(k - 1) : ids[j] # ids[k]})
    IN  [n \in 1..Len(firsts) |->
            LET members == Ascending({k \in 1..Len(batch) : ids[k] = ids[firsts[n]]})
            IN  [id   |-> ids[firsts[n]],
                 msgs |-> [i \in 1..Len(members) |-> batch[members[i]]]]]

\* cleanEmail, line 68: date: (parsed.date ?? new Date()).toISOString().
CleanEmailDate(u) == IF mail[u].hasDate THEN u ELSE now

\* writeMessage (29-46): the file threads/<threadId>/messages/<date>__msg<id>.md
\* with id = uid<UID>; its content is rendered from the same thread id, date
\* and id and from the cleaned body of the raw source.
MessageFile(threadId, u) ==
    [dir |-> threadId, date |-> CleanEmailDate(u), uid |-> u]

\* A call of imapFullSync.
\*   pc        "idle", or "thread" inside the loop over the threads
\*   groups    the result of groupIntoThreads
\*   k, j      the thread of the loop and the message of processThread's loop
\*   done      the thread ids whose processThread has returned
\*   failedAt  the thread whose processThread threw, or 0
\*   failures  history: some pass of the account has ended with an error
IdlePass ==
    [pc |-> "idle", groups |-> << >>, k |-> 0, j |-> 0, done |-> {}, failedAt |-> 0,
     failures |-> FALSE]

\* imapFullSync, lines 36-44: connect, fetchRecent, groupIntoThreads.
PassStart ==
    /\ pass.pc = "idle"
    /\ pass' = [IdlePass EXCEPT !.pc = "thread",
                                !.groups = GroupIntoThreads(FetchRecentUids),
                                !.k = 1, !.j = 1,
                                !.failures = pass.failures]
    /\ UNCHANGED <<mail, now, files>>

\* processThread, lines 140-145: cleanEmail and writeMessage of one message.
PassWriteMessage ==
    /\ pass.pc = "thread"
    /\ pass.k <= Len(pass.groups)
    /\ pass.j <= Len(pass.groups[pass.k].msgs)
    /\ files' = files \cup {MessageFile(pass.groups[pass.k].id,
                                        pass.groups[pass.k].msgs[pass.j])}
    /\ pass' = [pass EXCEPT !.j = @ + 1]
    /\ UNCHANGED <<mail, now>>

\* processThread, lines 176-232: writeThreadMeta and upsertThreadIndex; the
\* call returns and the loop of imapFullSync goes on (47-50).
PassIndexThread ==
    /\ pass.pc = "thread"
    /\ pass.k <= Len(pass.groups)
    /\ pass.j > Len(pass.groups[pass.k].msgs)
    /\ pass' = [pass EXCEPT !.done = @ \cup {pass.groups[pass.k].id},
                            !.k = @ + 1, !.j = 1]
    /\ UNCHANGED <<mail, now, files>>

\* imapFullSync, lines 52-57: the loop is over, disconnect, return.
PassReturns ==
    /\ pass.pc = "thread"
    /\ pass.k > Len(pass.groups)
    /\ pass' = [pass EXCEPT !.pc = "idle"]
    /\ UNCHANGED <<mail, now, files>>

\* A step of processThread throws (cleanEmail rejects, a write fails): the
\* loop of lines 46-50 has no try, so the catch of lines 58-61 disconnects
\* and throws the error on.
PassThrows ==
    /\ pass.pc = "thread"
    /\ pass.k <= Len(pass.groups)
    /\ pass' = [pass EXCEPT !.pc = "idle", !.failedAt = pass.k,
                            !.failures = TRUE]
    /\ UNCHANGED <<mail, now, files>>

\* A day passes.
ClockTick ==
    /\ now < MaxNow
    /\ now' = now + 1
    /\ UNCHANGED <<mail, pass, files>>

\* An account after setup, the mailbox with its messages, no pass yet.
InitPass ==
    /\ mail \in [MailUids -> UNION {Messages(u) : u \in MailUids}]
    /\ \A u \in MailUids : mail[u] \in Messages(u)
    /\ now = MaxMail
    /\ pass = IdlePass
    /\ files = {}

\* The other subsystems are looked at with one mailbox.
InitQuietPass ==
    /\ mail = [u \in MailUids |-> [hasDate |-> TRUE, subject |-> 1, replyTo |-> 0,
                                   references |-> << >>]]
    /\ now = MaxMail
    /\ pass = IdlePass
    /\ files = {}

(***************************************************************************)
(* The provider call of sendDraft: sendViaSMTP and GmailClient.sendMessage.*)
(***************************************************************************)
MaxSenders == 2   \* dispatches of a draft that are looked at
maxRetries == 5   \* withRetry's default for maxRetries

Senders == 1..MaxSenders

\* One dispatch of a draft, from sendDraft's try block on.
\*   pc       "idle"; "sending" while the provider's send operation is
\*            awaited; "backoff" in withRetry's sleep; "sent"; "failed"
\*   type     sendClient.type, "oauth" or "smtp"
\*   attempt  withRetry's loop variable
\*   calls    how often the provider's send operation was invoked
IdleDispatch == [pc |-> "idle", type |-> "none", attempt |-> 0, calls |-> 0]

\* sendDraft, lines 33-44: the provider's send operation is invoked,
\* gmail.users.messages.send (first call of fn in withRetry) or
\* transport.sendMail.
DispatchStart(s, type) ==
    /\ dispatch[s].pc = "idle"
    /\ dispatch' = [dispatch EXCEPT ![s] = [pc |-> "sending", type |-> type,
                                            attempt |-> 0, calls |-> 1]]

\* The send operation resolves: sendDraft goes on to the transition to sent.
ProviderAccepts(s) ==
    /\ dispatch[s].pc = "sending"
    /\ dispatch' = [dispatch EXCEPT ![s].pc = "sent"]

\* The send operation rejects. sendViaSMTP (15-43) lets the error through.
\* withRetry (91-116) lets it through unless its status is 429 or 5xx
\* (retryable); then it sleeps.
ProviderRejects(s, retryable) ==
    /\ dispatch[s].pc = "sending"
    /\ dispatch' = [dispatch EXCEPT ![s].pc =
                        IF dispatch[s].type = "oauth" /\ retryable
                        THEN "backoff" ELSE "failed"]

\* withRetry, lines 97-115: the sleep is over; `continue` calls fn again
\* while attempt <= maxRetries, and after the loop lastError is thrown.
WithRetryContinues(s) ==
    /\ dispatch[s].pc = "backoff"
    /\ dispatch' = [dispatch EXCEPT ![s] =
                        IF dispatch[s].attempt < maxRetries
                        THEN [@ EXCEPT !.pc = "sending", !.attempt = @ + 1,
                                       !.calls = @ + 1]
                        ELSE [@ EXCEPT !.pc = "failed"]]

\* No draft is being dispatched.
InitSend == dispatch = [s \in Senders |-> IdleDispatch]

(***************************************************************************)
(* upsertJsonl on one file, call after call.                               *)
(***************************************************************************)
MaxKeys == 3   \* key values of the items of the file

JsonlKeys  == 1..MaxKeys
JsonlItems == {IndexEntry(k, d) : k \in JsonlKeys, d \in Dates}

\* No call of upsertJsonl yet.
NoItem == [id |-> 0, last_date |-> 0]

\*   item      the item of the last call
\*   before    the file before the last call
\*   orig      the file before the first of the calls in a row with that item
\*   repeated  the last call had the same item as the call before it
NoUpsert == [item |-> NoItem, before |-> << >>, orig |-> << >>, repeated |-> FALSE]

\* upsertJsonl (40-57): readJsonl, replace or push, writeJsonl.
UpsertJsonl(item) ==
    /\ jsonlFile' = Upsert(jsonlFile, item)
    /\ upsertHist' = [item     |-> item,
                      before   |-> jsonlFile,
                      orig     |-> IF item = upsertHist.item
                                   THEN upsertHist.orig ELSE jsonlFile,
                      repeated |-> item = upsertHist.item]

\* The files upsertJsonl leaves behind, starting from no file: no key twice.
JsonlFiles ==
    {f \in UNION {[1..n -> JsonlItems] : n \in 0..MaxKeys} :
        \A i \in 1..Len(f), j \in 1..Len(f) : f[i].id = f[j].id => i = j}

InitJsonl ==
    /\ jsonlFile \in JsonlFiles
    /\ upsertHist = NoUpsert

\* The other subsystems are looked at with no such file.
InitQuietJsonl ==
    /\ jsonlFile = << >>
    /\ upsertHist = NoUpsert

(***************************************************************************)
(* validateDraft (outbox/validator.ts).                                    *)
(***************************************************************************)
MaxTo == 2   \* elements of a draft's `to` array

\* JavaScript values of a member, as far as validateDraft tells them apart:
\* "absent" (undefined), "empty" (the string ""), "str" (a string that is
\* not empty), "num" (a value that is truthy and no string).
MemberValues == {"absent", "empty", "str", "num"}
Truthy(v)    == v \notin {"absent", "empty"}
IsString(v)  == v \in {"empty", "str"}

\* Elements of `to`: a string with @, a string without, a value that is no
\* string.
ToElements == {"a@b", "noat", "num"}

\* `to`: absent, a value that is no array, or an array of elements.
ToValues ==
    {[kind |-> k, elems |-> << >>] : k \in {"absent", "notArray"}}
    \cup {[kind |-> "array", elems |-> e] :
             e \in UNION {[1..n -> ToElements] : n \in 0..MaxTo}}

\* An object JSON.parse returns, with these members.
DraftObjects ==
    [kind      : {"object"},
     action    : {"absent", "reply", "compose", "other"},
     thread_id : MemberValues,
     to        : ToValues,
     subject   : MemberValues,
     body      : MemberValues,
     status    : {"absent", "empty", "bogus"} \cup OUTBOX_STATUSES]

\* null, and a value that is no object (a string, a number).
NoObject(kind) ==
    [kind |-> kind, action |-> "absent", thread_id |-> "absent",
     to |-> [kind |-> "absent", elems |-> << >>], subject |-> "absent",
     body |-> "absent", status |-> "absent"]

\* What JSON.parse can hand to validateDraft.
DraftData == {NoObject("null"), NoObject("notObject")} \cup DraftObjects

\* Lines 36-40: one error for each element that is no string with @.
RECURSIVE ToErrors(_)
ToErrors(to) ==
    IF to = << >> THEN << >>
    ELSE (IF Head(to) # "a@b" THEN <<"to_address">> ELSE << >>) \o ToErrors(Tail(to))

\* validateDraft, lines 12-55.
ValidateDraft(data) ==
    IF data.kind # "object"
    THEN [valid |-> FALSE, errors |-> <<"object">>]
    ELSE LET errors ==
                (IF data.action = "absent" \/ data.action \notin {"reply", "compose"}
                 THEN <<"action">> ELSE << >>)
             \o (IF data.action = "reply"
                    /\ (~Truthy(data.thread_id) \/ ~IsString(data.thread_id))
                 THEN <<"thread_id">> ELSE << >>)
             \o (IF data.to.kind # "array" \/ data.to.elems = << >>
                 THEN <<"to">> ELSE ToErrors(data.to.elems))
             \o (IF ~Truthy(data.subject) \/ ~IsString(data.subject)
                 THEN <<"subject">> ELSE << >>)
             \o (IF ~Truthy(data.body) \/ ~IsString(data.body)
                 THEN <<"body">> ELSE << >>)
             \o (IF data.status \notin {"absent", "empty"}
                    /\ data.status \notin OUTBOX_STATUSES
                 THEN <<"status">> ELSE << >>)
         IN  [valid |-> errors = << >>, errors |-> errors]

NotValidated == [valid |-> FALSE, errors |-> <<"none">>]

\* A call validateDraft(draftData).
ValidateDraftCall ==
    /\ validation = NotValidated
    /\ validation' = ValidateDraft(draftData)
    /\ UNCHANGED draftData

InitValidator ==
    /\ draftData \in DraftData
    /\ validation = NotValidated

\* The other subsystems are looked at with one value.
InitQuietValidator ==
    /\ draftData = NoObject("null")
    /\ validation = NotValidated

(***************************************************************************)
(* groupIntoThreads on one batch.                                          *)
(***************************************************************************)
MaxBatch == 3   \* messages of the batch; the k-th has Message-ID k

BatchIds == 1..MaxBatch

\* The headers parseQuickHeaders gives for the message with Message-ID id:
\* In-Reply-To and References name any other message of the batch, seen
\* already or not; every message has a subject of its own.
BatchHeaders(id) ==
    [subject    : {id},
     replyTo    : {0} \cup (BatchIds \ {id}),
     references : {<< >>}
                  \cup {<<a>> : a \in BatchIds \ {id}}
                  \cup {<<a, b>> : a \in BatchIds \ {id}, b \in BatchIds \ {id}}]

\* groupIntoThreads (70-119) on the batch: the loop over the messages.
GroupCall ==
    /\ threadIds = << >>
    /\ threadIds' = [k \in BatchIds |-> ThreadIdOf(headers, [j \in BatchIds |-> j], k)]
    /\ UNCHANGED headers

InitGroup ==
    /\ headers \in [BatchIds -> UNION {BatchHeaders(id) : id \in BatchIds}]
    /\ \A id \in BatchIds : headers[id] \in BatchHeaders(id)
    /\ threadIds = << >>

\* The other subsystems are looked at with one batch.
InitQuietGroup ==
    /\ headers = [id \in BatchIds |->
                     [subject |-> id, replyTo |-> 0, references |-> << >>]]
    /\ threadIds = << >>

(***************************************************************************)
(* The subject fallback of groupIntoThreads: normalizeSubject, hashString. *)
(***************************************************************************)
MaxPrefixes == 3   \* leading re:/fw:/fwd: prefixes of a subject

\* A subject is a sequence of tokens: a reply or forward prefix in some
\* letter case, a run of whitespace (" "), or the text proper.
PrefixTokens == {"re:", "Re:", "FWD:"}
TextTokens   == {"hello", "Hello"}

\* String.prototype.toLowerCase, token by token.
LowerToken(t) ==
    CASE t = "Re:"   -> "re:"
      [] t = "FWD:"  -> "fwd:"
      [] t = "Hello" -> "hello"
      [] OTHER       -> t

ToLowerCase(str) == [k \in 1..Len(str) |-> LowerToken(str[k])]

\* String.prototype.trim.
RECURSIVE TrimStart(_)
TrimStart(str) ==
    IF str # << >> /\ Head(str) = " " THEN TrimStart(Tail(str)) ELSE str

RECURSIVE TrimEnd(_)
TrimEnd(str) ==
    IF str # << >> /\ str[Len(str)] = " "
    THEN TrimEnd(SubSeq(str, 1, Len(str) - 1)) ELSE str

Trim(str) == TrimEnd(TrimStart(str))

\* str.replace(/^(re|fw|fwd):\s*/gi, ""): the pattern is anchored at the
\* start of the string, so one prefix and the whitespace behind it go.
StripPrefix(str) ==
    IF str # << >> /\ LowerToken(Head(str)) \in {"re:", "fw:", "fwd:"}
    THEN TrimStart(Tail(str))
    ELSE str

\* normalizeSubject (266-272): the replace twice, trim, toLowerCase.
NormalizeSubject(subject) ==
    ToLowerCase(Trim(StripPrefix(StripPrefix(subject))))

\* extractHeader (260-264): the value of the header line, trimmed.
ExtractHeader(value) == Trim(value)

\* groupIntoThreads, lines 98-102: hashString of the normalized subject, of
\* the Message-ID when that is empty. hashString is a function of its
\* argument, which stands for its value here.
SubjectThreadId(value, msgId) ==
    LET normalized == NormalizeSubject(ExtractHeader(value))
    IN  IF normalized # << >> THEN normalized ELSE <<msgId>>

\* Subject header values with the same text: prefixes, each followed by
\* whitespace or not, the text in some letter case, whitespace around.
RECURSIVE WithPrefixes(_, _, _)
WithPrefixes(prefixes, spaced, text) ==
    IF prefixes = << >> THEN text
    ELSE <<Head(prefixes)>> \o (IF spaced THEN <<" ">> ELSE << >>)
         \o WithPrefixes(Tail(prefixes), spaced, text)

SubjectValues ==
    {(IF padded THEN <<" ">> ELSE << >>) \o WithPrefixes(prefixes, spaced, <<text>>)
        \o (IF padded THEN <<" ">> ELSE << >>) :
        prefixes \in UNION {[1..n -> PrefixTokens] : n \in 0..MaxPrefixes},
        spaced \in BOOLEAN, padded \in BOOLEAN, text \in TextTokens}

\* groupIntoThreads takes the subject fallback for both messages.
DeriveThreadIds ==
    /\ subjectIds = << >>
    /\ subjectIds' = <<SubjectThreadId(subjects[1], "id1"),
                       SubjectThreadId(subjects[2], "id2")>>
    /\ UNCHANGED subjects

InitSubject ==
    /\ subjects \in SubjectValues \X SubjectValues
    /\ subjectIds = << >>

\* The other subsystems are looked at with two plain subjects.
InitQuietSubject ==
    /\ subjects = << <<"hello">>, <<"hello">> >>
    /\ subjectIds = << >>

(***************************************************************************)
(* writeAttachments and the attachment list of thread.json.                *)
(***************************************************************************)
MaxAttachments == 2   \* attachments of the message

\* 10 * 1024 * 1024
MAX_ATTACHMENT_BYTES == 10485760

\* Sizes around the limit.
AttachmentSizes ==
    {MAX_ATTACHMENT_BYTES - 1, MAX_ATTACHMENT_BYTES, MAX_ATTACHMENT_BYTES + 1}

\* The sync of the message.
\*   path      "imap" (processThread) or "oauth" (syncThread)
\*   pc        "idle"; "write" inside writeAttachments; "meta" before
\*             writeThreadMeta; "done"
\*   i         the attachment writeAttachments is at
\*   results   what writeAttachments returns, so far
\*   disk      the attachments whose bytes are in attachments/
\*   listed    the `attachments` member of thread.json
NoAttSync ==
    [path |-> "none", pc |-> "idle", i |-> 0, results |-> << >>, disk |-> {},
     listed |-> << >>]

\* processThread 147-149 / syncThread 106-112: writeAttachments is called.
WriteAttachmentsStart(path) ==
    /\ attSync.pc = "idle"
    /\ attSizes # << >>
    /\ attSync' = [NoAttSync EXCEPT !.path = path, !.pc = "write", !.i = 1]
    /\ UNCHANGED attSizes

\* writeAttachments, lines 26-45: one round of the loop.
WriteAttachment ==
    /\ attSync.pc = "write"
    /\ attSync.i <= Len(attSizes)
    /\ LET size == attSizes[attSync.i] IN
       attSync' =
           IF size > MAX_ATTACHMENT_BYTES
           THEN [attSync EXCEPT
                    !.results = Append(@, [att |-> attSync.i, size_bytes |-> size,
                                           skipped |-> TRUE]),
                    !.i = @ + 1]
           ELSE [attSync EXCEPT
                    !.disk = @ \cup {attSync.i},
                    !.results = Append(@, [att |-> attSync.i, size_bytes |-> size,
                                           skipped |-> FALSE]),
                    !.i = @ + 1]
    /\ UNCHANGED attSizes

\* What the caller keeps of the returned metadata: processThread pushes the
\* objects as they are (150); syncThread maps each to filename, mime and
\* size_bytes (113-119).
KeptMeta(path, results) ==
    IF path = "imap" THEN results
    ELSE [k \in 1..Len(results) |-> [results[k] EXCEPT !.skipped = FALSE]]

\* writeAttachments returns (47).
WriteAttachmentsReturns ==
    /\ attSync.pc = "write"
    /\ attSync.i > Len(attSizes)
    /\ attSync' = [attSync EXCEPT !.pc = "meta",
                                  !.results = KeptMeta(attSync.path, attSync.results)]
    /\ UNCHANGED attSizes

\* writeThreadMeta (imap-sync.ts 194-196, full-sync.ts 173-175).
WriteAttachmentList ==
    /\ attSync.pc = "meta"
    /\ attSync' = [attSync EXCEPT !.pc = "done", !.listed = attSync.results]
    /\ UNCHANGED attSizes

InitAttach ==
    /\ attSizes \in UNION {[1..n -> AttachmentSizes] : n \in 0..MaxAttachments}
    /\ attSync = NoAttSync

\* The other subsystems are looked at with a message without attachments.
InitQuietAttach ==
    /\ attSizes = << >>
    /\ attSync = NoAttSync

(***************************************************************************)
(* The daemon process and the ImapScheduler it owns (part of main and      *)
(* `shutdown`, with the scheduler's steps in between).                     *)
(***************************************************************************)
\* The process whose scheduler imapVars describe.
TheDaemon == 1

\* The event loop of the process runs: promises are settled, timers fire.
EventLoopRuns == daemon[TheDaemon].pc \in {"starting", "running", "shutdown"}

\* main, lines 231-233: `await scheduler.start()` is reached.
MainStartsScheduler ==
    /\ daemon[TheDaemon].pc = "starting"
    /\ startPc = "none"
    /\ ImapStart
    /\ UNCHANGED daemonVars

\* main, lines 233-262: start() has returned; the watchers are started and
\* the handlers of SIGINT and SIGTERM are installed.
MainInstallsHandlers ==
    /\ daemon[TheDaemon].pc = "starting"
    /\ startPc = "done"
    /\ daemon' = [daemon EXCEPT ![TheDaemon].pc = "running", ![TheDaemon].sched = 1]
    /\ UNCHANGED <<pidFile, starter, stopper>>
    /\ UNCHANGED imapVars

\* shutdown, lines 253-255: after the awaited log line, stop() is called on
\* the scheduler. The handler then awaits the watchers' stop() and a second
\* log line (256-257).
ShutdownStopsScheduler ==
    /\ daemon[TheDaemon].pc = "shutdown"
    /\ ~daemon[TheDaemon].stopped
    /\ running' = FALSE
    /\ timer' = FALSE
    /\ UNCHANGED <<syncing, lastUid, startPc, inv, accountJson, syncState, mailbox,
                   recentFrom, cli, skipped, onErrorCalled>>
    /\ daemon' = [daemon EXCEPT ![TheDaemon].stopped = TRUE]
    /\ UNCHANGED <<pidFile, starter, stopper>>

\* shutdown, line 258: process.exit(0). What the process had under way
\* stays where it was.
ShutdownExits ==
    /\ daemon[TheDaemon].pc = "shutdown"
    /\ daemon[TheDaemon].stopped
    /\ daemon' = [daemon EXCEPT ![TheDaemon].pc = "exited"]
    /\ UNCHANGED <<pidFile, starter, stopper>>
    /\ UNCHANGED imapVars

(***************************************************************************)
(* Sync passes and last_uid: ImapScheduler.runSync (unnamed/part_010),     *)
(* cmdSync (cli/maildeck.ts) and imapFullSync (imap-sync.ts). Process 1    *)
(* is the daemon, process 2 a `maildeck sync` on the same account; the     *)
(* message with UID t is the message of thread t.                          *)
(***************************************************************************)
\* The sync pass of a process.
\*   pc       "idle"; "threads" in the loop over the threads (imapFullSync
\*            47-51); "store" when the sync operation has returned
\*   fetched  the UIDs of the messages the server returned
\*   left     the threads the loop has still to process
IdleSync == [pc |-> "idle", fetched |-> {}, left |-> {}]

\* runSync 207-233 / cmdSync 311-335, imapFullSync 35-44: connect, fetch,
\* group into threads.
SyncFetch(p, uids) ==
    /\ sync[p].pc = "idle"
    /\ sync' = [sync EXCEPT ![p] = [pc |-> "threads", fetched |-> uids, left |-> uids]]
    /\ UNCHANGED <<highWater, corpusVars>>

\* imapFullSync 47-48: processThread is called for the next thread; it runs
\* up to the write of the message file (processThread 140-145).
SyncProcessThread(p, d) ==
    /\ sync[p].pc = "threads"
    /\ sync[p].left # {}
    /\ proc[p].pc = "idle"
    /\ LET t == CHOOSE x \in sync[p].left : \A y \in sync[p].left : x <= y IN
       /\ threadDir' = [threadDir EXCEPT ![t] = TRUE]
       /\ proc' = [proc EXCEPT ![p] = [IdleProc EXCEPT !.pc = "write_msg",
                                                       !.thread = t, !.date = d]]
    /\ UNCHANGED <<threadsJsonl, msgFile, threadJson, upserted, sync, highWater>>

\* processThread returns (its last await is upsertThreadIndex's second
\* writeJsonl) and the loop goes on (imapFullSync 49-51).
SyncThreadReturns(p) ==
    /\ sync[p].pc = "threads"
    /\ SortWrite(p)
    /\ sync' = [sync EXCEPT ![p].left = @ \ {proc[p].thread}]
    /\ UNCHANGED highWater

\* processThread throws: imapFullSync rethrows (59-62); runSync's catch calls
\* onError (242-246), cmdSync rejects. last_uid is not written.
SyncThreadThrows(p) ==
    /\ sync[p].pc = "threads"
    /\ ProcessThreadFails(p)
    /\ sync' = [sync EXCEPT ![p] = IdleSync]
    /\ UNCHANGED highWater

\* imapFullSync 53-58: the loop is over; lastUid = max of the UIDs fetched,
\* or 0.
SyncReturns(p) ==
    /\ sync[p].pc = "threads"
    /\ sync[p].left = {}
    /\ proc[p].pc = "idle"
    /\ sync' = [sync EXCEPT ![p].pc = "store"]
    /\ UNCHANGED <<highWater, corpusVars>>

\* runSync 235-236 with persistLastUid 193-200 / cmdSync 337-341:
\* account.json is rewritten with last_uid = result.lastUid.
StoreLastUid(p) ==
    /\ sync[p].pc = "store"
    /\ highWater' = [last_uid |-> IF sync[p].fetched = {} THEN 0
                                  ELSE MaxOf(sync[p].fetched),
                     pass     |-> sync[p].fetched]
    /\ sync' = [sync EXCEPT ![p] = IdleSync]
    /\ UNCHANGED corpusVars

\* No pass yet; account.json as setup wrote it.
InitMark ==
    /\ sync = [p \in Procs |-> IdleSync]
    /\ highWater = [last_uid |-> 0, pass |-> {}]

(***************************************************************************)
(* message_count of thread.json and msg_count of the thread-index entry   *)
(* (processThread, imap-sync.ts 176-216).                                  *)
(***************************************************************************)
NoCounts == [message_count |-> 0, msg_count |-> 0]

\* processThread, lines 183-216: threadMeta.message_count and
\* indexEntry.msg_count are both messages.length, the number of messages of
\* the thread in this batch; writeThreadMeta and upsertThreadIndex replace
\* what the thread had.
PassWriteCounts ==
    /\ PassIndexThread
    /\ LET group == pass.groups[pass.k] IN
       counts' = [counts EXCEPT ![group.id] =
                     [message_count |-> Len(group.msgs), msg_count |-> Len(group.msgs)]]

\* No thread.json and no index entry yet.
InitCount == counts = [t \in Subjects |-> NoCounts]

(***************************************************************************)
(* Initial states and specifications.                                      *)
(***************************************************************************)
\* A constructed ImapScheduler, an account.json as setup wrote it or as
\* earlier runs left it, and a server mailbox.
InitImap ==
    /\ running = FALSE
    /\ syncing = FALSE
    /\ lastUid = Null
    /\ timer = FALSE
    /\ startPc = "none"
    /\ inv = [i \in Invocations |-> IdleInvocation]
    /\ accountJson = Null
    /\ syncState = "idle"
    /\ mailbox \in 0..MaxUid
    /\ recentFrom = 1
    /\ cli = IdleCli
    /\ skipped = FALSE
    /\ onErrorCalled = FALSE

\* A constructed SyncScheduler.
InitGmail ==
    /\ gRunning = FALSE
    /\ gHistoryId = 0
    /\ gTimer = FALSE
    /\ gStartPc = "none"
    /\ gTick = [t \in Ticks |-> IdleTick]
    /\ gServerHistory = 1

\* The other subsystems are looked at with no daemon.pid and no daemon
\* process of their own.
InitNoDaemon == InitDaemon /\ pidFile = Null

OutboxRest == UNCHANGED <<imapVars, gmailVars, fileVars, corpusVars, daemonVars, passVars,
                           sendVars, jsonlVars, validatorVars, groupVars, subjectVars, attachVars,
                           markVars, countVars>>
ImapRest   == UNCHANGED <<outboxVars, gmailVars, fileVars, corpusVars, daemonVars, passVars,
                           sendVars, jsonlVars, validatorVars, groupVars, subjectVars, attachVars,
                           markVars, countVars>>
GmailRest  == UNCHANGED <<outboxVars, imapVars, fileVars, corpusVars, daemonVars, passVars,
                           sendVars, jsonlVars, validatorVars, groupVars, subjectVars, attachVars,
                           markVars, countVars>>
FileRest   == UNCHANGED <<outboxVars, imapVars, gmailVars, corpusVars, daemonVars, passVars,
                           sendVars, jsonlVars, validatorVars, groupVars, subjectVars, attachVars,
                           markVars, countVars>>
CorpusRest == UNCHANGED <<outboxVars, imapVars, gmailVars, fileVars, daemonVars, passVars,
                           sendVars, jsonlVars, validatorVars, groupVars, subjectVars, attachVars,
                           markVars, countVars>>
DaemonRest == UNCHANGED <<outboxVars, imapVars, gmailVars, fileVars, corpusVars, passVars,
                           sendVars, jsonlVars, validatorVars, groupVars, subjectVars, attachVars,
                           markVars, countVars>>
PassRest   == UNCHANGED <<outboxVars, imapVars, gmailVars, fileVars, corpusVars, daemonVars,
                           sendVars, jsonlVars, validatorVars, groupVars, subjectVars, attachVars,
                           markVars, countVars>>
SendRest   == UNCHANGED <<outboxVars, imapVars, gmailVars, fileVars, corpusVars, daemonVars,
                           passVars, jsonlVars, validatorVars, groupVars, subjectVars, attachVars,
                           markVars, countVars>>
JsonlRest  == UNCHANGED <<outboxVars, imapVars, gmailVars, fileVars, corpusVars, daemonVars,
                           passVars, sendVars, validatorVars, groupVars, subjectVars, attachVars,
                           markVars, countVars>>
ValidatorRest == UNCHANGED <<outboxVars, imapVars, gmailVars, fileVars, corpusVars, daemonVars,
                           passVars, sendVars, jsonlVars, groupVars, subjectVars, attachVars,
                           markVars, countVars>>
GroupRest  == UNCHANGED <<outboxVars, imapVars, gmailVars, fileVars, corpusVars, daemonVars,
                           passVars, sendVars, jsonlVars, validatorVars, subjectVars, attachVars,
                           markVars, countVars>>
SubjectRest == UNCHANGED <<outboxVars, imapVars, gmailVars, fileVars, corpusVars, daemonVars,
                           passVars, sendVars, jsonlVars, validatorVars, groupVars, attachVars,
                           markVars, countVars>>
AttachRest == UNCHANGED <<outboxVars, imapVars, gmailVars, fileVars, corpusVars, daemonVars,
                           passVars, sendVars, jsonlVars, validatorVars, groupVars, subjectVars,
                           markVars, countVars>>
MarkRest   == UNCHANGED <<outboxVars, imapVars, gmailVars, fileVars, corpusVars, daemonVars,
                           passVars, sendVars, jsonlVars, validatorVars, groupVars, subjectVars,
                           attachVars, countVars>>
CountRest  == UNCHANGED <<outboxVars, imapVars, gmailVars, fileVars, corpusVars, daemonVars,
                           passVars, sendVars, jsonlVars, validatorVars, groupVars, subjectVars,
                           attachVars, markVars>>

InitSpecOutbox == InitFiles /\ InitCount /\ InitMark /\ InitQuietAttach /\ InitQuietSubject /\ InitQuietGroup /\ InitQuietValidator /\ InitQuietJsonl /\ InitSend /\ InitQuietPass /\ InitCorpus /\ InitNoDaemon /\ InitOutbox /\ InitImap /\ InitGmail /\ mailbox = 0

InitSpecTransition == InitFiles /\ InitCount /\ InitMark /\ InitQuietAttach /\ InitQuietSubject /\ InitQuietGroup /\ InitQuietValidator /\ InitQuietJsonl /\ InitSend /\ InitQuietPass /\ InitCorpus /\ InitNoDaemon /\ InitTransition /\ InitImap /\ InitGmail /\ mailbox = 0

InitSpecImap == InitFiles /\ InitCount /\ InitMark /\ InitQuietAttach /\ InitQuietSubject /\ InitQuietGroup /\ InitQuietValidator /\ InitQuietJsonl /\ InitSend /\ InitQuietPass /\ InitCorpus /\ InitNoDaemon /\ InitImap /\ InitOutbox /\ InitGmail /\ reviewBeforeSend = TRUE

InitSpecGmail ==
    InitFiles /\ InitCount /\ InitMark /\ InitQuietAttach /\ InitQuietSubject /\ InitQuietGroup /\ InitQuietValidator /\ InitQuietJsonl /\ InitSend /\ InitQuietPass /\ InitCorpus /\ InitNoDaemon /\ InitGmail /\ InitOutbox /\ InitImap /\ reviewBeforeSend = TRUE /\ mailbox = 0

NextOutbox ==
    \/ \E p \in Handlers, f \in Files : WatchEvent(p, f) /\ OutboxRest
    \/ \E p \in Handlers : HandleFile(p) /\ OutboxRest
    \/ \E p \in Handlers : SendDraftRead(p) /\ OutboxRest
    \/ \E p \in Handlers : TransitionDraftRead(p) /\ OutboxRest
    \/ \E p \in Handlers : TransitionDraftWrite(p) /\ OutboxRest
    \/ \E p \in Handlers : TransitionDraftUnlink(p) /\ OutboxRest
    \/ \E p \in Handlers : ProviderSendReturns(p) /\ OutboxRest
    \/ \E f \in Files, s \in DroppedContents : ExternalCreate(f, s) /\ OutboxRest
    \/ \E f \in Files : ExternalApprove(f) /\ OutboxRest
    \/ Crash /\ OutboxRest

NextTransition ==
    \/ \E p \in Callers, f \in Files, s \in OUTBOX_STATUSES :
          DirectCall(p, f, s) /\ OutboxRest
    \/ \E p \in Handlers : TransitionDraftRead(p) /\ OutboxRest
    \/ \E p \in Handlers : TransitionDraftWrite(p) /\ OutboxRest
    \/ \E p \in Handlers : TransitionDraftUnlink(p) /\ OutboxRest

NextImap ==
    \/ ImapStart /\ ImapRest
    \/ \E i \in Invocations, readable \in BOOLEAN : LoadLastUid(i, readable) /\ ImapRest
    \/ \E i \in Invocations : TimerTick(i) /\ ImapRest
    \/ ImapStop /\ ImapRest
    \/ \E i \in Invocations : RunSyncReturns(i) /\ ImapRest
    \/ \E i \in Invocations : RunSyncThrows(i) /\ ImapRest
    \/ \E i \in Invocations : PersistRead(i) /\ ImapRest
    \/ \E i \in Invocations : PersistWrite(i) /\ ImapRest
    \/ \E i \in Invocations : PersistFails(i) /\ ImapRest
    \/ \E i \in Invocations : OnSyncRead(i) /\ ImapRest
    \/ \E i \in Invocations : OnSyncWrite(i) /\ ImapRest
    \/ Deliver /\ ImapRest
    \/ Age /\ ImapRest

\* The ImapScheduler alone: the mailbox on the server does not change.
NextImapScheduler ==
    \/ ImapStart /\ ImapRest
    \/ \E i \in Invocations, readable \in BOOLEAN : LoadLastUid(i, readable) /\ ImapRest
    \/ \E i \in Invocations : TimerTick(i) /\ ImapRest
    \/ ImapStop /\ ImapRest
    \/ \E i \in Invocations : RunSyncReturns(i) /\ ImapRest
    \/ \E i \in Invocations : RunSyncThrows(i) /\ ImapRest
    \/ \E i \in Invocations : PersistRead(i) /\ ImapRest
    \/ \E i \in Invocations : PersistWrite(i) /\ ImapRest
    \/ \E i \in Invocations : PersistFails(i) /\ ImapRest
    \/ \E i \in Invocations : OnSyncRead(i) /\ ImapRest
    \/ \E i \in Invocations : OnSyncWrite(i) /\ ImapRest

NextSync ==
    \/ NextImap
    \/ \E b \in BOOLEAN : CmdSyncStart(b) /\ ImapRest
    \/ CmdSyncReturns /\ ImapRest
    \/ CmdSyncThrows /\ ImapRest
    \/ CmdSyncWrite /\ ImapRest

InitSpecFiles ==
    InitFiles /\ InitCount /\ InitMark /\ InitQuietAttach /\ InitQuietSubject /\ InitQuietGroup /\ InitQuietValidator /\ InitQuietJsonl /\ InitSend /\ InitQuietPass /\ InitCorpus /\ InitNoDaemon /\ InitOutbox /\ InitImap /\ InitGmail /\ reviewBeforeSend = TRUE /\ mailbox = 0

NextFiles ==
    \/ \E w \in Writers, path \in AtomicPaths, v \in 1..MaxVersions :
          AtomicWriteStart(w, path, v) /\ FileRest
    \/ \E w \in Writers : AtomicWriteChunk(w) /\ FileRest
    \/ \E w \in Writers : AtomicRename(w) /\ FileRest
    \/ \E w \in Writers, path \in AttachmentPaths, v \in 1..MaxVersions :
          AttachmentWriteStart(w, path, v) /\ FileRest
    \/ \E w \in Writers : AttachmentWriteChunk(w) /\ FileRest
    \/ \E w \in Writers : WriteFails(w) /\ FileRest
    \/ WriterProcessDies /\ FileRest

InitSpecCorpus ==
    InitCorpus /\ InitFiles /\ InitCount /\ InitMark /\ InitQuietAttach /\ InitQuietSubject /\ InitQuietGroup /\ InitQuietValidator /\ InitQuietJsonl /\ InitSend /\ InitQuietPass /\ InitNoDaemon /\ InitOutbox /\ InitImap /\ InitGmail
    /\ reviewBeforeSend = TRUE /\ mailbox = 0

NextCorpus ==
    \/ \E p \in Procs, t \in Threads, d \in Dates :
          ProcessThreadStart(p, t, d) /\ CorpusRest
    \/ \E p \in Procs : WriteMessage(p) /\ CorpusRest
    \/ \E p \in Procs : WriteThreadMeta(p) /\ CorpusRest
    \/ \E p \in Procs : UpsertRead(p) /\ CorpusRest
    \/ \E p \in Procs : UpsertWrite(p) /\ CorpusRest
    \/ \E p \in Procs : SortWrite(p) /\ CorpusRest
    \/ \E p \in Procs : ProcessThreadFails(p) /\ CorpusRest

InitSpecDaemon ==
    InitDaemon /\ InitFiles /\ InitCount /\ InitMark /\ InitQuietAttach /\ InitQuietSubject /\ InitQuietGroup /\ InitQuietValidator /\ InitQuietJsonl /\ InitSend /\ InitQuietPass /\ InitCorpus /\ InitOutbox /\ InitImap /\ InitGmail
    /\ reviewBeforeSend = TRUE /\ mailbox = 0

NextDaemon ==
    \/ CmdStartRead /\ DaemonRest
    \/ \E child \in Pids : CmdStartSpawn(child) /\ DaemonRest
    \/ CmdStartDone /\ DaemonRest
    \/ \E p \in Pids : DaemonSetup(p) /\ DaemonRest
    \/ \E p \in Pids, failedPass \in BOOLEAN :
          SchedulerStartReturns(p, failedPass) /\ DaemonRest
    \/ \E p \in Pids : SchedulerStartRejects(p) /\ DaemonRest
    \/ \E p \in Pids : DaemonStarted(p) /\ DaemonRest
    \/ \E p \in Pids : Signal(p) /\ DaemonRest
    \/ \E p \in Pids : Shutdown(p) /\ DaemonRest
    \/ CmdStopRead /\ DaemonRest
    \/ CmdStopKill /\ DaemonRest
    \/ CmdStopCleanup /\ DaemonRest

NextGmail ==
    \/ \E t \in Ticks : GmailStart(t) /\ GmailRest
    \/ GmailStop /\ GmailRest
    \/ \E t \in Ticks : GmailTick(t) /\ GmailRest
    \/ \E t \in Ticks : FullSyncReturns(t) /\ GmailRest
    \/ \E t \in Ticks : FullSyncThrows(t) /\ GmailRest
    \/ \E t \in Ticks : IncrementalSyncReturns(t) /\ GmailRest
    \/ \E t \in Ticks : IncrementalSyncExpired(t) /\ GmailRest
    \/ \E t \in Ticks : IncrementalSyncThrows(t) /\ GmailRest
    \/ GmailChange /\ GmailRest

\* The schedulers of the daemon: the ImapScheduler of an IMAP account and the
\* SyncScheduler of a Gmail API account, each with its timer.
InitSpecSchedulers ==
    InitFiles /\ InitCount /\ InitMark /\ InitQuietAttach /\ InitQuietSubject /\ InitQuietGroup /\ InitQuietValidator /\ InitQuietJsonl /\ InitSend /\ InitQuietPass /\ InitCorpus /\ InitNoDaemon /\ InitImap /\ InitGmail /\ InitOutbox
    /\ reviewBeforeSend = TRUE /\ mailbox = 1

NextSchedulers == NextImapScheduler \/ NextGmail

SpecSchedulers == InitSpecSchedulers /\ [][NextSchedulers]_vars

\* The outbox watcher of one account with its senders and the outside world.
SpecOutbox == InitSpecOutbox /\ [][NextOutbox]_vars

\* Direct calls of transitionDraft on every kind of draft.
SpecTransition == InitSpecTransition /\ [][NextTransition]_vars

\* The IMAP scheduler of one account and the server.
SpecImap == InitSpecImap /\ [][NextImap]_vars

\* The IMAP scheduler, the CLI sync command run beside it, and the server.
SpecSync == InitSpecImap /\ [][NextSync]_vars

\* The Gmail API scheduler of one account.
SpecGmail == InitSpecGmail /\ [][NextGmail]_vars

(***************************************************************************)
(* Properties of the outbox state machine (transitionDraft).               *)
(***************************************************************************)
\* The directories of the account that hold a file named f.
DirsHolding(f) ==
    {d \in {"outbox", "sent", "failed"} :
        \/ d = "outbox" /\ Present(outbox, f)
        \/ d = "sent" /\ Present(sent, f)
        \/ d = "failed" /\ Present(failed, f)}

\* C1 (I4): at every moment, between the steps of a transition and after a
\* crash or I/O error included, a draft filename lies in exactly one of
\* outbox/, sent/, failed/ (a filename that exists is never in two of them).
C1_ExactlyOneDirectory ==
    \A f \in Files : Cardinality(DirsHolding(f)) <= 1

\* The four pairs (current status, requested status) the state machine allows.
AllowedPairs ==
    {<<"pending_review", "ready_to_send">>, <<"ready_to_send", "sending">>,
     <<"sending", "sent">>, <<"sending", "failed">>}

\* The direct calls of transitionDraft that have ended.
EndedCalls == {p \in Handlers : hnd[p].ctx = "direct" /\ hnd[p].res # "none"}

\* C2: transitionDraft changes a status only along the four allowed pairs,
\* and a call with any other pair (current status, requested status) ends
\* with InvalidTransitionError, also when the draft's status is sent, failed,
\* missing or unknown.
C2_OtherPairsRaiseInvalidTransition ==
    \A p \in EndedCalls :
        /\ hnd[p].res = "ok" => <<hnd[p].tcur, hnd[p].tnew>> \in AllowedPairs
        /\ <<hnd[p].tcur, hnd[p].tnew>> \notin AllowedPairs
              => hnd[p].res = "InvalidTransitionError"

\* C3: a transition attempt outside the allowed set leaves the disk as it
\* was: when transitionDraft reads a draft whose pair (current status,
\* requested status) is not allowed, that step and the rest of the call change
\* no file of outbox/, sent/ or failed/ (the call goes on to no write and no
\* unlink).
C3_RejectedAttemptLeavesDisk ==
    [][\A p \in Handlers :
          ( /\ hnd[p].pc = "td_read"
            /\ hnd'[p] # hnd[p]
            /\ <<StatusOf(hnd[p].file), hnd[p].tnew>> \notin AllowedPairs )
          => /\ outbox' = outbox /\ sent' = sent /\ failed' = failed
             /\ hnd'[p].pc \notin {"td_write", "td_unlink"}]_vars

\* A call pending_review -> sent was rejected and the draft lies in outbox/
\* as it was written, with nothing in sent/ or failed/.
C3_Witness ==
    \E p \in EndedCalls :
        /\ hnd[p].res = "InvalidTransitionError"
        /\ hnd[p].tcur = "pending_review" /\ hnd[p].tnew = "sent"
        /\ outbox[hnd[p].file] = NewDraft("pending_review")
        /\ ~Present(sent, hnd[p].file) /\ ~Present(failed, hnd[p].file)

(***************************************************************************)
(* Properties of the outbox watcher and the sender.                        *)
(***************************************************************************)
\* The handleFile invocations whose provider send of f is under way.
SendsInFlight(f) == {p \in Handlers : hnd[p].pc = "sd_inflight" /\ hnd[p].file = f}

\* C4: for every draft filename at most one send is in flight at any time,
\* whatever add and change events the watcher receives for the file.
C4_OneSendInFlightPerDraft ==
    \A f \in Files : Cardinality(SendsInFlight(f)) <= 1

\* C5: with review_before_send = true no step of the daemon changes a draft
\* of outbox/ whose status is pending_review, and none starts a transition
\* or a send for it: the draft stays in outbox/ as pending_review until a
\* step outside the daemon sets it to ready_to_send.
C5_ReviewKeepsPendingDraft ==
    [][reviewBeforeSend =>
        \A f \in Files :
            (Present(outbox, f) /\ outbox[f].status = "pending_review")
            => /\ hnd' # hnd => outbox'[f] = outbox[f]
               /\ outbox'[f].status \in {"pending_review", "ready_to_send"}
               /\ sent'[f] = sent[f] /\ failed'[f] = failed[f]
               /\ \A p \in Handlers :
                     ( /\ hnd'[p].file = f
                       /\ hnd'[p].pc \in {"sd_inflight", "td_read", "td_write",
                                          "td_unlink"} )
                     => hnd'[p] = hnd[p]]_vars

\* With review_before_send = true handleFile has gone through a pending_review
\* draft (onDraftDetected was called for it) and the draft lies untouched
\* in outbox/.
C5_Witness ==
    /\ reviewBeforeSend
    /\ \E f \in Files :
          /\ detected[f]
          /\ outbox[f] = NewDraft("pending_review")
          /\ ~Present(sent, f) /\ ~Present(failed, f)
          /\ ~sendOk[f] /\ ~sendErr[f]
    /\ \A p \in Handlers : hnd[p].pc = "idle"

\* C6: the place of a draft reflects the outcome of its send: a draft whose
\* provider send returned successfully is never in failed/, and a draft is
\* in failed/ only if its provider send raised an error.
C6_PlaceReflectsSendOutcome ==
    \A f \in Files :
        /\ sendOk[f] => ~Present(failed, f)
        /\ Present(failed, f) => sendErr[f]

(***************************************************************************)
(* Properties of the schedulers and of last_uid.                           *)
(***************************************************************************)
\* The runSync invocations that are inside a pass: between the start of the
\* sync operation and the end of persistLastUid.
PassesInProgress ==
    {i \in Invocations : inv[i].pc \in {"sync", "persist_read", "persist_write"}}

\* C7: an ImapScheduler never has two sync passes in progress at once (a
\* tick or a start() that finds a pass in progress starts none and leaves
\* none waiting).
C7_OnePassInProgress ==
    /\ Cardinality(PassesInProgress) <= 1
    /\ \A i \in Invocations :
          inv[i].pc \in {"idle", "sync", "persist_read", "persist_write",
                         "cb_read", "cb_write"}

\* A runSync call has found a pass in progress and has returned, and a pass
\* is in progress while the timer is armed.
C7_Witness ==
    /\ skipped
    /\ timer
    /\ Cardinality(PassesInProgress) = 1

\* C8: a SyncScheduler (Gmail API) has at most one sync, full or
\* incremental, in flight at any time.
C8_OneGmailSyncInFlight ==
    Cardinality(GmailInFlight) <= 1

\* C9 (I3): the last_uid stored in account.json never decreases, whatever
\* sequence of sync passes of the scheduler and of the CLI command runs.
C9_StoredLastUidNeverDecreases ==
    [][accountJson' >= accountJson]_vars

\* C10: the step by which a pass of the scheduler ends with an error (the
\* sync operation throws and runSync returns through catch and finally)
\* changes neither the cached lastUid nor the last_uid of account.json.
C10_FailedPassKeepsLastUid ==
    [][\A i \in Invocations :
          (inv[i].pc = "sync" /\ inv'[i].pc = "idle")
          => /\ lastUid' = lastUid
             /\ accountJson' = accountJson]_vars

\* A pass has ended with an error while the server holds a message beyond
\* the mark, and the cached and the stored mark are both still behind it.
C10_Witness ==
    /\ onErrorCalled
    /\ PassesInProgress = {}
    /\ lastUid > 0 /\ accountJson = lastUid
    /\ mailbox > lastUid


\* The writers of corpus files and the files a reader finds.
SpecFiles == InitSpecFiles /\ [][NextFiles]_vars

\* C11 (I5): every file a reader can open at a target path is whole at all
\* times: its previous complete contents or its new complete contents, also
\* when a write fails or the process dies in the middle of it.
C11_TargetFilesWhole ==
    \A path \in FsPaths : Whole(fsFile[path])

\* The sync passes of one account writing threads and the thread index.
SpecCorpus == InitSpecCorpus /\ [][NextCorpus]_vars

\* The ids that have an entry in threads.jsonl.
IndexedIds == {threadsJsonl[k].id : k \in 1..Len(threadsJsonl)}

\* C12: upserts to the JSONL index of an account are serialized, so none is
\* lost: the file holds a record for every key whose upsert has returned,
\* also when upserts with different keys overlapped in time.
C12_NoUpsertLost ==
    upserted \subseteq IndexedIds

\* C13 (I7): every version of threads.jsonl found on disk is sorted by
\* last_date descending.
C13_ThreadIndexSorted ==
    \A k \in 1..(Len(threadsJsonl) - 1) :
        threadsJsonl[k].last_date >= threadsJsonl[k + 1].last_date

\* The number of entries of threads.jsonl whose id is t.
EntriesOf(t) == Cardinality({k \in 1..Len(threadsJsonl) : threadsJsonl[k].id = t})

\* C14 (I2): at all times threads.jsonl holds exactly one entry for each
\* thread directory on disk (and none for a thread without a directory).
C14_OneEntryPerThreadDir ==
    \A t \in Threads : EntriesOf(t) = (IF threadDir[t] THEN 1 ELSE 0)

\* C15 (I1): at all times a message file exists in a thread's messages/
\* directory if and only if the thread's directory and thread.json exist.
C15_MessageIffThreadJson ==
    \A t \in Threads : msgFile[t] <=> (threadDir[t] /\ threadJson[t])

\* The status changes of the outbox state machine on the way to a terminal
\* directory.
SendPathSteps ==
    {<<"pending_review", "ready_to_send">>, <<"ready_to_send", "sending">>,
     <<"sending", "sent">>, <<"sending", "failed">>}

\* C16: with review_before_send = false a draft dropped into outbox/ as
\* pending_review goes through ready_to_send, sending and sent in that order
\* and through no other status in between: every change of a draft's status
\* is the next step of that path (or the step to failed when the send raised).
C16_AutoSendStatusOrder ==
    [][\A f \in Files :
          (~reviewBeforeSend /\ StatusOf(f) # "absent" /\ StatusOf(f)' # StatusOf(f))
              => <<StatusOf(f), StatusOf(f)'>> \in SendPathSteps]_vars

\* No invocation of handleFile is working on draft f.
Settled(f) == \A p \in Handlers : hnd[p].pc = "idle" \/ hnd[p].file # f

RejectedContents == {"unparsable", "unknown", "constructor"}

\* C18: a file of outbox/ that is no JSON or fails validation is never
\* modified, moved or deleted, and every handleFile invocation that reads it
\* reports an error for it and does nothing more (unless the daemon dies
\* before it has read the file).
C18_InvalidFileReportedUntouched ==
    [][\A f \in Files :
          (Present(outbox, f) /\ outbox[f].status \in RejectedContents)
              => /\ outbox'[f] = outbox[f] /\ sent'[f] = sent[f] /\ failed'[f] = failed[f]
                 /\ \A p \in Handlers :
                       (/\ hnd[p].pc = "hf_read" /\ hnd[p].file = f
                        /\ hnd'[p] # hnd[p] /\ ~Crash)
                           => rejected'[f] /\ hnd'[p] = IdleHandler]_vars

\* An unparsable file was read by the watcher, reported, and is still there.
C18_Witness ==
    \E f \in Files :
        /\ outbox[f] = NewDraft("unparsable")
        /\ rejected[f] /\ ~detected[f] /\ Settled(f)
        /\ ~Present(sent, f) /\ ~Present(failed, f)

\* The daemons of one base directory with the start and stop commands.
SpecDaemon == InitSpecDaemon /\ [][NextDaemon]_vars

\* C19: at most one daemon process runs for a base directory at any time.
C19_AtMostOneDaemon ==
    Cardinality({p \in Pids : IsProcessRunning(p)}) <= 1

\* C20: a daemon that got SIGINT or SIGTERM, at whatever point of its run,
\* has ended only after stop() was called on every scheduler and watcher,
\* and daemon.pid no longer names it.
C20_SignalStopsBeforeExit ==
    \A p \in Pids :
        (daemon[p].signalled /\ daemon[p].pc \in {"exited", "killed"})
            => daemon[p].stopped /\ pidFile # p

C22_FailedPassKeepsLoop ==
    [][\A i \in Invocations :
          (inv[i].pc = "sync" /\ inv'[i].pc = "idle")
          => /\ onErrorCalled'
             /\ ~syncing'
             /\ running' = running
             /\ timer' = (timer \/ inv[i].from = "start")
             /\ (running' /\ timer') => ~RunSyncSkips']_vars

\* After a failed pass a tick of the timer has started a new pass.
C22_Witness ==
    /\ onErrorCalled /\ running /\ timer /\ syncing /\ lastUid = Null
    /\ \E i \in Invocations : inv[i].pc = "sync" /\ inv[i].from = "tick"

\* C23: a sync error in one account, the first pass that start() runs
\* included, does not terminate the daemon (and so does not keep the
\* schedulers and watchers of the other accounts from being started).
C23_SyncErrorKeepsDaemon ==
    \A p \in Pids : daemon[p].syncError => daemon[p].pc # "fatal"

InitSpecPass ==
    InitPass /\ InitFiles /\ InitCount /\ InitMark /\ InitQuietAttach /\ InitQuietSubject /\ InitQuietGroup /\ InitQuietValidator /\ InitQuietJsonl /\ InitSend /\ InitCorpus /\ InitNoDaemon /\ InitOutbox /\ InitImap /\ InitGmail
    /\ reviewBeforeSend = TRUE /\ mailbox = 0

NextPass ==
    \/ PassStart /\ PassRest
    \/ PassWriteMessage /\ PassRest
    \/ PassIndexThread /\ PassRest
    \/ PassReturns /\ PassRest
    \/ PassThrows /\ PassRest
    \/ ClockTick /\ PassRest

SpecPass == InitSpecPass /\ [][NextPass]_vars

\* C24: an error while one thread is processed does not abort the sync
\* pass: when the pass is over, every other thread of the batch has been
\* written and indexed.
C24_ErrorKeepsPassGoing ==
    pass.pc = "idle" =>
        \A n \in 1..Len(pass.groups) :
            n # pass.failedAt => pass.groups[n].id \in pass.done

\* The message files of the message with UID u in thread directory d.
FilesOf(u, d) == {f \in files : f.uid = u /\ f.dir = d}

\* C25: a sync over a message whose file is already written leaves the
\* message files of its thread directory as they are: the same file name
\* and content again, no second file and no altered one.
C25_ResyncKeepsFiles ==
    [][\A u \in MailUids, d \in Subjects :
          FilesOf(u, d) # {} => FilesOf(u, d)' = FilesOf(u, d)]_vars

\* C26: after any sequence of completed sync passes each message has its
\* files in exactly one thread directory.
C26_OneThreadDirPerMessage ==
    (pass.pc = "idle" /\ ~pass.failures) =>
        \A f \in files, g \in files : f.uid = g.uid => f.dir = g.dir

InitSpecCli ==
    InitImap /\ InitFiles /\ InitCount /\ InitMark /\ InitQuietAttach /\ InitQuietSubject /\ InitQuietGroup /\ InitQuietValidator /\ InitQuietJsonl /\ InitSend /\ InitQuietPass /\ InitCorpus /\ InitNoDaemon /\ InitOutbox /\ InitGmail
    /\ reviewBeforeSend = TRUE

NextCli ==
    \/ Deliver /\ ImapRest
    \/ Age /\ ImapRest
    \/ \E b \in BOOLEAN : CmdSyncStart(b) /\ ImapRest
    \/ CmdSyncReturns /\ ImapRest
    \/ CmdSyncUnreadStart /\ ImapRest
    \/ \E unread \in SUBSET (1..MaxUid) : CmdSyncUnreadReturns(unread) /\ ImapRest
    \/ CmdSyncThrows /\ ImapRest
    \/ CmdSyncWrite /\ ImapRest

SpecCli == InitSpecCli /\ [][NextCli]_vars

\* C28: an unread-only sync never changes the last_uid stored for the
\* account: the write that ends `sync --unread` leaves it as it was.
C28_UnreadSyncKeepsLastUid ==
    [][(cli.unread /\ cli.pc = "write" /\ cli'.pc = "idle")
          => accountJson' = accountJson]_vars

\* C27: while the daemon runs the Scheduler of the account is the only
\* writer of account.json: what the file holds changes only by the write of
\* persistLastUid.
C27_SchedulerOnlyWriter ==
    [][(running /\ accountJson' # accountJson)
          => \E i \in Invocations :
                inv[i].pc = "persist_write" /\ inv'[i].pc # "persist_write"]_vars

InitSpecSend ==
    InitSend /\ InitFiles /\ InitCount /\ InitMark /\ InitQuietAttach /\ InitQuietSubject /\ InitQuietGroup /\ InitQuietValidator /\ InitQuietJsonl /\ InitQuietPass /\ InitCorpus /\ InitNoDaemon /\ InitOutbox /\ InitImap
    /\ InitGmail /\ reviewBeforeSend = TRUE /\ mailbox = 0

NextSend ==
    \/ \E s \in Senders, type \in {"oauth", "smtp"} : DispatchStart(s, type) /\ SendRest
    \/ \E s \in Senders : ProviderAccepts(s) /\ SendRest
    \/ \E s \in Senders, retryable \in BOOLEAN : ProviderRejects(s, retryable) /\ SendRest
    \/ \E s \in Senders : WithRetryContinues(s) /\ SendRest

SpecSend == InitSpecSend /\ [][NextSend]_vars

\* C29: a send that fails is surfaced without retry: when a dispatch ends
\* with the error, the provider's send operation was invoked exactly once.
C29_FailedSendInvokedOnce ==
    \A s \in Senders : dispatch[s].pc = "failed" => dispatch[s].calls = 1

\* C30: after a sync pass has failed (with an authentication error, the
\* error callback was called) the sync_state stored for the account is
\* "error", and nothing but a new setup changes that.
C30_FailedPassStoresError ==
    onErrorCalled => syncState = "error"

InitSpecJsonl ==
    InitJsonl /\ InitFiles /\ InitCount /\ InitMark /\ InitQuietAttach /\ InitQuietSubject /\ InitQuietGroup /\ InitQuietValidator /\ InitSend /\ InitQuietPass /\ InitCorpus /\ InitNoDaemon /\ InitOutbox
    /\ InitImap /\ InitGmail /\ reviewBeforeSend = TRUE /\ mailbox = 0

NextJsonl ==
    \E item \in JsonlItems : UpsertJsonl(item) /\ JsonlRest

SpecJsonl == InitSpecJsonl /\ [][NextJsonl]_vars

\* The items of a file without those of one key, in their order.
WithoutKey(items, key) == SelectSeq(items, LAMBDA it : it.id # key)

\* C31: after the same record was upserted twice in a row the file is as
\* after the first of the two calls: it holds exactly one record with that
\* key, and the other records and their order are as before the calls.
C31_UpsertTwiceAsOnce ==
    upsertHist.repeated =>
        /\ jsonlFile = upsertHist.before
        /\ Cardinality({k \in 1..Len(jsonlFile) :
                           jsonlFile[k].id = upsertHist.item.id}) = 1
        /\ jsonlFile[FindIndex(jsonlFile, upsertHist.item.id)] = upsertHist.item
        /\ WithoutKey(jsonlFile, upsertHist.item.id)
              = WithoutKey(upsertHist.orig, upsertHist.item.id)

C31_Witness ==
    /\ upsertHist.repeated
    /\ Len(upsertHist.orig) = 2
    /\ \E k \in 1..2 : /\ upsertHist.orig[k].id = upsertHist.item.id
                       /\ upsertHist.orig[k] # upsertHist.item

InitSpecValidator ==
    InitValidator /\ InitFiles /\ InitCount /\ InitMark /\ InitQuietAttach /\ InitQuietSubject /\ InitQuietGroup /\ InitQuietJsonl /\ InitSend /\ InitQuietPass /\ InitCorpus
    /\ InitNoDaemon /\ InitOutbox /\ InitImap /\ InitGmail
    /\ reviewBeforeSend = TRUE /\ mailbox = 0

NextValidator ==
    ValidateDraftCall /\ ValidatorRest

SpecValidator == InitSpecValidator /\ [][NextValidator]_vars

\* C32: validateDraft accepts a value only if it is an object whose action
\* is reply or compose, with a thread_id when the action is reply, whose to
\* is a non-empty array of strings with @, whose subject and body are
\* non-empty strings and whose status is one of the five statuses.
C32_AcceptedDraftIsWellFormed ==
    validation.valid =>
        /\ draftData.kind = "object"
        /\ draftData.action \in {"reply", "compose"}
        /\ draftData.action = "reply" => draftData.thread_id = "str"
        /\ draftData.to.kind = "array" /\ draftData.to.elems # << >>
        /\ \A k \in 1..Len(draftData.to.elems) : draftData.to.elems[k] = "a@b"
        /\ draftData.subject = "str"
        /\ draftData.body = "str"
        /\ draftData.status \in OUTBOX_STATUSES

InitSpecGroup ==
    InitGroup /\ InitFiles /\ InitCount /\ InitMark /\ InitQuietAttach /\ InitQuietSubject /\ InitQuietValidator /\ InitQuietJsonl /\ InitSend /\ InitQuietPass
    /\ InitCorpus /\ InitNoDaemon /\ InitOutbox /\ InitImap /\ InitGmail
    /\ reviewBeforeSend = TRUE /\ mailbox = 0

NextGroup ==
    GroupCall /\ GroupRest

SpecGroup == InitSpecGroup /\ [][NextGroup]_vars

\* The references of the k-th message that name a message seen before it.
SeenReferences(k) ==
    {r \in 1..Len(headers[k].references) : headers[k].references[r] < k}

\* C33: within one batch a message whose In-Reply-To names a message seen
\* before it gets that message's thread; otherwise it gets the thread of the
\* first of its References that was seen before it; only when neither
\* applies is its thread id the hash of its subject.
C33_ThreadByReplyThenReference ==
    threadIds # << >> =>
        \A k \in BatchIds :
            LET h == headers[k] IN
            IF h.replyTo # 0 /\ h.replyTo < k
            THEN threadIds[k] = threadIds[h.replyTo]
            ELSE IF SeenReferences(k) # {}
            THEN \E r \in SeenReferences(k) :
                    /\ \A q \in SeenReferences(k) : r <= q
                    /\ threadIds[k] = threadIds[h.references[r]]
            ELSE threadIds[k] = h.subject

\* The third message names the first in In-Reply-To and the second, which
\* is in another thread, in References.
C33_Witness ==
    /\ threadIds # << >>
    /\ headers[3].replyTo = 1 /\ headers[3].references = <<2, 1>>
    /\ threadIds[1] # threadIds[2]
    /\ threadIds[3] = threadIds[1]

InitSpecSubject ==
    InitSubject /\ InitFiles /\ InitCount /\ InitMark /\ InitQuietAttach /\ InitQuietGroup /\ InitQuietValidator /\ InitQuietJsonl /\ InitSend
    /\ InitQuietPass /\ InitCorpus /\ InitNoDaemon /\ InitOutbox /\ InitImap /\ InitGmail
    /\ reviewBeforeSend = TRUE /\ mailbox = 0

NextSubject ==
    DeriveThreadIds /\ SubjectRest

SpecSubject == InitSpecSubject /\ [][NextSubject]_vars

\* C34: two messages without a usable reply header whose subjects differ
\* only in the number of leading re:/fw:/fwd: prefixes, in letter case or in
\* surrounding whitespace get the same thread id.
C34_SubjectVariantsShareThread ==
    subjectIds # << >> => subjectIds[1] = subjectIds[2]

InitSpecAttach ==
    InitAttach /\ InitFiles /\ InitCount /\ InitMark /\ InitQuietSubject /\ InitQuietGroup /\ InitQuietValidator
    /\ InitQuietJsonl /\ InitSend /\ InitQuietPass /\ InitCorpus /\ InitNoDaemon /\ InitOutbox
    /\ InitImap /\ InitGmail /\ reviewBeforeSend = TRUE /\ mailbox = 0

NextAttach ==
    \/ \E path \in {"imap", "oauth"} : WriteAttachmentsStart(path) /\ AttachRest
    \/ WriteAttachment /\ AttachRest
    \/ WriteAttachmentsReturns /\ AttachRest
    \/ WriteAttachmentList /\ AttachRest

SpecAttach == InitSpecAttach /\ [][NextAttach]_vars

\* C35: on both sync paths an attachment larger than the limit is listed
\* in thread.json with skipped = true and has no bytes on disk, and the
\* other attachments of the message are written.
C35_OversizeListedAsSkipped ==
    attSync.pc = "done" =>
        \A k \in 1..Len(attSizes) :
            /\ attSync.listed[k].att = k
            /\ IF attSizes[k] > MAX_ATTACHMENT_BYTES
               THEN attSync.listed[k].skipped /\ k \notin attSync.disk
               ELSE ~attSync.listed[k].skipped /\ k \in attSync.disk

\* The dispatch of drafts with a daemon that keeps running between crashes:
\* chokidar keeps delivering the events of outbox/ (its initial scan after
\* every start included), and every invocation that is not killed takes its
\* next step.
NextRecovery ==
    \/ \E p \in Handlers, f \in Files : WatchEvent(p, f) /\ OutboxRest
    \/ \E p \in Handlers : HandleFile(p) /\ OutboxRest
    \/ \E p \in Handlers : SendDraftRead(p) /\ OutboxRest
    \/ \E p \in Handlers : TransitionDraftRead(p) /\ OutboxRest
    \/ \E p \in Handlers : TransitionDraftWrite(p) /\ OutboxRest
    \/ \E p \in Handlers : TransitionDraftUnlink(p) /\ OutboxRest
    \/ \E p \in Handlers : ProviderSendReturns(p) /\ OutboxRest
    \/ \E f \in Files, s \in {"pending_review", "ready_to_send"} :
          ExternalCreate(f, s) /\ OutboxRest
    \/ \E f \in Files : ExternalApprove(f) /\ OutboxRest
    \/ Crash /\ OutboxRest

HandlerStep(p) ==
    \/ HandleFile(p) /\ OutboxRest
    \/ SendDraftRead(p) /\ OutboxRest
    \/ TransitionDraftRead(p) /\ OutboxRest
    \/ TransitionDraftWrite(p) /\ OutboxRest
    \/ TransitionDraftUnlink(p) /\ OutboxRest
    \/ ProviderSendReturns(p) /\ OutboxRest

SpecRecovery ==
    /\ InitSpecOutbox
    /\ [][NextRecovery]_vars
    /\ \A p \in Handlers : WF_vars(HandlerStep(p))
    /\ WF_vars(\E p \in Handlers, f \in Files : WatchEvent(p, f) /\ OutboxRest)

\* The daemon died after it had written status "sending" and before the
\* provider answered: the draft lies in outbox/ and no invocation holds it.
Interrupted(f) ==
    /\ Present(outbox, f)
    /\ outbox[f].status = "sending"
    /\ \A p \in Handlers : hnd[p].pc = "idle"
    /\ ~sendOk[f] /\ ~sendErr[f]

\* C36: a draft whose dispatch was cut off by a crash of the daemon ends in
\* sent/ or failed/ once a daemon runs again; it does not stay in outbox/
\* with status "sending" forever.
C36_InterruptedDraftEndsSentOrFailed ==
    \A f \in Files : Interrupted(f) ~> (Present(sent, f) \/ Present(failed, f))

\* Everything but the daemon process and its scheduler.
ShutdownRest ==
    UNCHANGED <<outboxVars, gmailVars, fileVars, corpusVars, passVars, sendVars, jsonlVars,
                validatorVars, groupVars, subjectVars, attachVars, markVars, countVars>>

InitSpecShutdown ==
    InitNoDaemon /\ InitFiles /\ InitCount /\ InitMark /\ InitQuietAttach /\ InitQuietSubject /\ InitQuietGroup
    /\ InitQuietValidator /\ InitQuietJsonl /\ InitSend /\ InitQuietPass /\ InitCorpus
    /\ InitOutbox /\ InitImap /\ InitGmail /\ reviewBeforeSend = TRUE

NextShutdown ==
    \/ CmdStartRead /\ DaemonRest
    \/ CmdStartSpawn(TheDaemon) /\ DaemonRest
    \/ CmdStartDone /\ DaemonRest
    \/ DaemonSetup(TheDaemon) /\ DaemonRest
    \/ MainStartsScheduler /\ ShutdownRest
    \/ MainInstallsHandlers /\ ShutdownRest
    \/ Signal(TheDaemon) /\ DaemonRest
    \/ ShutdownStopsScheduler /\ ShutdownRest
    \/ ShutdownExits /\ ShutdownRest
    \/ EventLoopRuns /\ \E i \in Invocations, readable \in BOOLEAN :
                            LoadLastUid(i, readable) /\ ImapRest
    \/ EventLoopRuns /\ \E i \in Invocations : TimerTick(i) /\ ImapRest
    \/ EventLoopRuns /\ \E i \in Invocations : RunSyncReturns(i) /\ ImapRest
    \/ EventLoopRuns /\ \E i \in Invocations : RunSyncThrows(i) /\ ImapRest
    \/ EventLoopRuns /\ \E i \in Invocations : PersistRead(i) /\ ImapRest
    \/ EventLoopRuns /\ \E i \in Invocations : PersistWrite(i) /\ ImapRest
    \/ EventLoopRuns /\ \E i \in Invocations : PersistFails(i) /\ ImapRest
    \/ EventLoopRuns /\ \E i \in Invocations : OnSyncRead(i) /\ ImapRest
    \/ EventLoopRuns /\ \E i \in Invocations : OnSyncWrite(i) /\ ImapRest

SpecShutdown == InitSpecShutdown /\ [][NextShutdown]_vars

\* C37: when the daemon has exited through its signal handler, no sync
\* pass was cut off: every pass that was in flight when the signal came
\* has run to its end before process.exit.
C37_ExitAfterPassCompletes ==
    daemon[TheDaemon].pc = "exited" =>
        \A i \in Invocations : inv[i].pc \notin {"sync", "persist_read", "persist_write"}

\* C38: a scheduler on which stop() was called, and whose start() is not
\* (or no longer) awaiting the initial sync pass, has no polling timer
\* armed.
C38_StoppedSchedulerHasNoTimer ==
    /\ (~running /\ startPc \in {"none", "done"}) => ~timer
    /\ (~gRunning /\ gStartPc \in {"none", "done", "failed"}) => ~gTimer

\* Everything but the corpus of the account and the passes over it.
SyncRest ==
    UNCHANGED <<outboxVars, imapVars, gmailVars, fileVars, daemonVars, passVars, sendVars,
                jsonlVars, validatorVars, groupVars, subjectVars, attachVars, countVars>>

InitSpecMark ==
    InitMark /\ InitCorpus /\ InitFiles /\ InitCount /\ InitQuietAttach /\ InitQuietSubject
    /\ InitQuietGroup /\ InitQuietValidator /\ InitQuietJsonl /\ InitSend /\ InitQuietPass
    /\ InitNoDaemon /\ InitOutbox /\ InitImap /\ InitGmail
    /\ reviewBeforeSend = TRUE /\ mailbox = 0

NextMark ==
    \/ \E p \in Procs, uids \in SUBSET Threads : SyncFetch(p, uids) /\ SyncRest
    \/ \E p \in Procs, d \in Dates : SyncProcessThread(p, d) /\ SyncRest
    \/ \E p \in Procs : WriteMessage(p) /\ UNCHANGED markVars /\ SyncRest
    \/ \E p \in Procs : WriteThreadMeta(p) /\ UNCHANGED markVars /\ SyncRest
    \/ \E p \in Procs : UpsertRead(p) /\ UNCHANGED markVars /\ SyncRest
    \/ \E p \in Procs : UpsertWrite(p) /\ UNCHANGED markVars /\ SyncRest
    \/ \E p \in Procs : SyncThreadReturns(p) /\ SyncRest
    \/ \E p \in Procs : SyncThreadThrows(p) /\ SyncRest
    \/ \E p \in Procs : SyncReturns(p) /\ SyncRest
    \/ \E p \in Procs : StoreLastUid(p) /\ SyncRest

SpecMark == InitSpecMark /\ [][NextMark]_vars

\* C39: whenever account.json stores last_uid = u after a sync pass, every
\* message that pass fetched with UID <= u has its message file, its
\* thread.json and its entry of threads.jsonl on disk.
C39_MarkNotPastUnpersisted ==
    \A u \in highWater.pass :
        u <= highWater.last_uid => msgFile[u] /\ threadJson[u] /\ u \in IndexedIds

\* Everything but the passes and the counts they store.
PassCountRest ==
    UNCHANGED <<outboxVars, imapVars, gmailVars, fileVars, corpusVars, daemonVars, sendVars,
                jsonlVars, validatorVars, groupVars, subjectVars, attachVars, markVars>>

NextCount ==
    \/ PassStart /\ UNCHANGED countVars /\ PassCountRest
    \/ PassWriteMessage /\ UNCHANGED countVars /\ PassCountRest
    \/ PassWriteCounts /\ PassCountRest
    \/ PassReturns /\ UNCHANGED countVars /\ PassCountRest
    \/ PassThrows /\ UNCHANGED countVars /\ PassCountRest
    \/ ClockTick /\ UNCHANGED countVars /\ PassCountRest

SpecCount == InitSpecPass /\ [][NextCount]_vars

\* The message files in the messages/ directory of thread t.
MessageFilesOf(t) == {f \in files : f.dir = t}

\* C40: after any sequence of sync passes (none of which failed),
\* message_count of a thread's thread.json and msg_count of its index entry
\* equal the number of message files in the thread's messages/ directory.
C40_CountsEqualMessageFiles ==
    (pass.pc = "idle" /\ ~pass.failures) =>
        \A t \in Subjects :
            /\ counts[t].message_count = Cardinality(MessageFilesOf(t))
            /\ counts[t].msg_count = Cardinality(MessageFilesOf(t))

Spec == SpecOutbox

====
